---- MODULE Spec2Model ----
(***************************************************************************)
(* Model of the monitor hook of fivespark-directus-utils                   *)
(* (src/src/monitor-hook.ts, second createMonitorHook, lines 252-533).     *)
(*                                                                         *)
(* One registration (one call of monitor()) observes the mutations of one  *)
(* collection.  The host runs, per mutation, the filter hook (pre-commit   *)
(* capture), then writes the record store, then runs the action hook       *)
(* (post-commit dispatch).  Several mutations may be in flight at once.    *)
(***************************************************************************)
EXTENDS Integers, Sequences, FiniteSets, TLC

\* ------------------------------------------------------------------ bounds

\* Number of mutations the host starts in one behaviour.
MaxOps == 2

\* Number of times the clock advances in one behaviour.
MaxTicks == 2

\* Number of registrations (calls of monitor()) in one behaviour.
MaxHooks == 2

\* Number of mutations that several registrations observe in one behaviour.
MaxFlights == 2

\* Number of callers of acquireLock in one behaviour.
MaxLockers == 4

\* Number of ThreadSafeLock objects created in a behaviour whose callers
\* come back for further locks.
MaxLocks == 2

\* Number of calls of minimalUpsert in one behaviour.
MaxUpserts == 1

\* Number of requests the endpointAuth middleware handles in one behaviour.
MaxRequests == 2

\* Number of action hook invocations whose awaits are followed in one
\* behaviour.
MaxDispatches == 3

\* ----------------------------------------------------------------- domains

\* Primary keys of the monitored collection.  9 and 10 order differently as
\* numbers and as strings, which is what Array.prototype.sort compares.
Keys == {9, 10}

\* Field names of the collection (the primary key field is kept apart).
Fields == {"status", "title"}

\* Field values a payload can carry.
Values == {"draft", "published"}

\* JavaScript's null and undefined.
Null == "null"
Undefined == "undefined"

\* Values a handler may pass as from / to of hasChanged.
ArgValues == Values \cup {"archived", Undefined}

\* The event kinds of the host.
EventNames == {"create", "update", "delete"}

\* The staleness threshold of the sweep, in milliseconds.
FIVE_MINUTES == 1000 * 60 * 5

\* The amounts by which the clock advances between two steps.
TickSteps == {1, FIVE_MINUTES}

\* --------------------------------------------------------- plain objects

\* An object is a function from the names of its own properties.
EmptyObject == [f \in {} |-> Undefined]

\* obj[f] of JavaScript: undefined for a property the object lacks.
Get(obj, f) == IF f \in DOMAIN obj THEN obj[f] ELSE Undefined

\* { ...a, ...b }
Spread(a, b) ==
  [f \in (DOMAIN a) \cup (DOMAIN b) |-> IF f \in DOMAIN b THEN b[f] ELSE a[f]]

\* obj after `delete obj[f]` for every f in names.
DeleteProps(obj, names) == [f \in (DOMAIN obj) \ names |-> obj[f]]

\* The update and create payloads the host may send.
Payloads == UNION {[S -> Values] : S \in SUBSET Fields}

\* The elements of a set, one after the other.
RECURSIVE SetToSeq(_)
SetToSeq(S) ==
  IF S = {} THEN <<>>
  ELSE LET x == CHOOSE y \in S : TRUE IN <<x>> \o SetToSeq(S \ {x})

\* The elements of a sequence.
Range(s) == {s[i] : i \in 1..Len(s)}

\* The sequences without repetition over the non-empty subsets of Keys.
KeySeqs ==
  {s \in UNION {[1..n -> Keys] : n \in 1..Cardinality(Keys)} :
     Cardinality(Range(s)) = Len(s)}

\* Object.keys of an array: its indices as strings.
ArrayKeys(arr) == {ToString(i - 1) : i \in 1..Len(arr)}

\* { ...arr } of an array of keys: an object from index names to elements.
ArrayObject(arr) ==
  [f \in ArrayKeys(arr) |->
     ToString(arr[CHOOSE i \in 1..Len(arr) : ToString(i - 1) = f])]

\* ------------------------------------------------------------ fingerprint

RECURSIVE Digits(_)
\* The decimal string of a number, as the sequence of its digits.
Digits(n) == IF n < 10 THEN <<n>> ELSE Append(Digits(n \div 10), n % 10)

\* s < t in the order of strings (code unit by code unit, a prefix first).
StrLess(s, t) ==
  \E i \in 1..Len(t) :
    /\ \A j \in 1..(i - 1) : j <= Len(s) /\ s[j] = t[j]
    /\ (i > Len(s) \/ s[i] < t[i])

RECURSIVE InsertKey(_, _)
InsertKey(x, s) ==
  IF s = <<>> THEN <<x>>
  ELSE IF StrLess(Digits(x), Digits(Head(s))) THEN <<x>> \o s
  ELSE <<Head(s)>> \o InsertKey(x, Tail(s))

\* A sort that forgets to sort.
SortKeysUnsorted(keys) == keys

RECURSIVE SortKeys(_)
\* keys.sort(): the default comparator orders the elements by their strings.
SortKeys(keys) ==
  IF keys = <<>> THEN <<>> ELSE InsertKey(Head(keys), SortKeys(Tail(keys)))

\* The id of the one registration: lastHookId++ of the first monitor() call.
hookId == 0

\* A fingerprint that leaves the keys out.
createFingerprintOfEvent(event, keys) == <<hookId, event>>

\* md5(JSON.stringify({ hookId, event, keys: keys.sort() })): the digest is
\* modelled by the content it is taken of.
createFingerprint(event, keys) == <<hookId, event, SortKeys(keys)>>

\* ------------------------------------------------------------------ state

VARIABLES
  monitorOptions,       \* the options of the registration: fields, includeUnchanged
  mutationsInProgress,  \* fingerprint -> entry captured by a filter hook
  db,                   \* the record store: key -> item, for the items that exist
  ops,                  \* the host's mutations: inputs, phase and what each hook did
  now,                  \* Date.now()
  ticks,                \* how often the clock advanced
  lastHookId,           \* the module's counter of registrations
  hooks,                \* the registrations made, each with its id and its store
  flights,              \* the mutations that several registrations observe
  currentLocks,         \* thread-safe.ts: target -> the lock registered for it
  lockObjects,          \* the ThreadSafeLock instances created so far
  lockers,              \* the callers of acquireLock: phase, mode and lock
  collection,           \* minimalUpsert: the items of the service's collection
  upserts,              \* the calls of minimalUpsert: arguments and outcome
  configEndpoints,      \* endpointAuth: the items of config_endpoints
  requests,             \* the requests the middleware handled
  dispatches            \* the action hook invocations, each with its handler call

vars == <<monitorOptions, mutationsInProgress, db, ops, now, ticks,
          lastHookId, hooks, flights, currentLocks, lockObjects, lockers,
          collection, upserts, configEndpoints, requests, dispatches>>

\* The state of thread-safe.ts.
lockVars == <<currentLocks, lockObjects, lockers>>

\* The state of minimalUpsert and of endpointAuth.
utilVars == <<collection, upserts, configEndpoints, requests>>

\* The state outside the single registration that monitorOptions,
\* mutationsInProgress and ops describe.
aside == <<lastHookId, hooks, flights, lockVars, utilVars, dispatches>>

OpIds == 1..MaxOps

\* What the action hook of a mutation did (nothing yet).
NoResult ==
  [reported |-> <<>>, matched |-> FALSE, owner |-> 0, age |-> 0, calls |-> <<>>,
   warnings |-> <<>>, errors |-> 0, threw |-> FALSE]

\* A mutation the host has not started.  sent is the payload as the filter
\* hook of the registration received it, payload the one that is committed.
IdleOp ==
  [pc |-> "idle", event |-> "none", keys |-> <<>>, payload |-> EmptyObject,
   sent |-> EmptyObject, modified |-> FALSE, fields |-> {}, captured |-> <<>>,
   before |-> EmptyObject,
   removed |-> <<>>, swept |-> FALSE, accountability |-> "none",
   result |-> NoResult]

\* The items of the store, each with every field of the collection.
Items == [Fields -> Values \cup {Null}]

\* An item as the store holds it before any mutation of the behaviour.
InitialItem == [f \in Fields |-> "draft"]

\* The field lists a registration is made with: none (documented as "all
\* fields"), one field, every field.  The two fields are interchangeable, so
\* one of them stands for both as the single monitored field.
MonitoredChoices == {{}, {"status"}, Fields}

HookIds == 1..MaxHooks

FlightIds == 1..MaxFlights

\* A mutation that the registrations have not seen yet.  at is the phase of
\* each registration's hooks for it, consumed the owner of the entry each
\* registration's action hook took (<<0, 0>>: none).
IdleFlight ==
  [pc |-> "idle", event |-> "none", keys |-> <<>>,
   at |-> [h \in HookIds |-> "none"],
   consumed |-> [h \in HookIds |-> <<0, 0>>]]

\* The module is loaded and monitor() was not called yet.
NoHooks ==
  /\ lastHookId = 0
  /\ hooks = <<>>
  /\ flights = [f \in FlightIds |-> IdleFlight]

\* The callers of acquireLock; each acquires one lock and releases it once.
Lockers == 1..MaxLockers

\* The targets that are locked.
Targets == {"a", "b"}

\* A caller that has not called acquireLock yet.
IdleLocker == [pc |-> "idle", target |-> "none", shared |-> FALSE, lock |-> 0]

\* The module is loaded: const currentLocks = new Map() (line 64).
NoLocks ==
  /\ currentLocks = EmptyObject
  /\ lockObjects = <<>>
  /\ lockers = [l \in Lockers |-> IdleLocker]

\* No action hook invocation is followed through its awaits.
NoDispatches == dispatches = <<>>

\* Neither minimalUpsert nor the middleware has been called; the services
\* they would use hold no items.
NoUtils ==
  /\ collection = EmptyObject
  /\ upserts = <<>>
  /\ configEndpoints = <<>>
  /\ requests = <<>>

\* A boolean option as the caller passes it, or leaves it out.
OptionValues == {"true", "false", Undefined}

\* A value in a boolean context.
Truthy(v) == v = "true"

\* The second argument of monitor(): an array of fields, or an options
\* object in which everything but fields may be left out (lines 266-290).
\* eventsGiven tells whether the options object has an events array.
MonitorArgs ==
  [isArray : {TRUE}, fields : {{"status"}}, includeUnchanged : {Undefined},
   eventsGiven : {FALSE}, events : {{}}, useAccountability : {Undefined}]
  \cup
  [isArray : {FALSE}, fields : {{"status"}}, includeUnchanged : {Undefined},
   eventsGiven : {FALSE}, events : {{}}, useAccountability : OptionValues]
  \cup
  [isArray : {FALSE}, fields : {{"status"}}, includeUnchanged : {Undefined},
   eventsGiven : {TRUE}, events : SUBSET EventNames,
   useAccountability : OptionValues]

\* monitorOptions of lines 310-318.  includeUnchanged is only ever read in a
\* boolean context and is kept as the boolean it reads as; useAccountability
\* is kept as passed, undefined when the options object leaves it out.
MonitorOptionsOf(arg) ==
  [fields |-> arg.fields,
   includeUnchanged |-> ~arg.isArray /\ Truthy(arg.includeUnchanged),
   events |-> IF arg.isArray \/ ~arg.eventsGiven THEN EventNames
              ELSE arg.events,
   useAccountability |-> IF arg.isArray THEN "true"
                         ELSE arg.useAccountability]

Init ==
  /\ monitorOptions \in [fields : MonitoredChoices, includeUnchanged : BOOLEAN,
                         events : {EventNames}, useAccountability : {"true"}]
  /\ mutationsInProgress = EmptyObject
  /\ db \in {[k \in S |-> InitialItem] : S \in {Keys, {9}}}
  /\ ops = [o \in OpIds |-> IdleOp]
  /\ now = 0
  /\ ticks = 0
  /\ NoHooks
  /\ NoLocks
  /\ NoDispatches
  /\ NoUtils

\* ----------------------------------------------------------- record store

RECURSIVE Ascending(_)
\* The elements of a set of keys in the order of the primary key.
Ascending(S) ==
  IF S = {} THEN <<>>
  ELSE LET m == CHOOSE x \in S : \A y \in S : x <= y
       IN <<m>> \o Ascending(S \ {m})

\* itemsService.readMany(keys, { fields: [primaryKeyField, ...fields] }) followed
\* by the map of lines 381-386: one { key, data } per item the store returns,
\* data holding the requested fields without the primary key.
ReadMany(keys, fields) ==
  LET found == Ascending(Range(keys) \cap DOMAIN db)
  IN [i \in 1..Len(found) |->
        [key |-> found[i],
         data |-> [f \in fields \cap Fields |-> db[found[i]][f]]]]

\* The store after the host wrote a mutation.
Written(event, keys, payload) ==
  CASE event = "create" ->
         [k \in (DOMAIN db) \cup Range(keys) |->
            IF k \in Range(keys)
            THEN [f \in Fields |-> IF f \in DOMAIN payload THEN payload[f] ELSE Null]
            ELSE db[k]]
    [] event = "update" ->
         [k \in DOMAIN db |->
            IF k \in Range(keys) THEN Spread(db[k], payload) ELSE db[k]]
    [] OTHER -> [k \in (DOMAIN db) \ Range(keys) |-> db[k]]

\* ------------------------------------------------------------ filter hook

\* A put that keeps the entry an earlier capture left under the fingerprint.
PutIfAbsent(store, fp, entry) ==
  [k \in (DOMAIN store) \cup {fp} |-> IF k \in DOMAIN store THEN store[k] ELSE entry]

\* Put and delete on the fingerprint-keyed object mutationsInProgress.
Put(store, fp, entry) ==
  [k \in (DOMAIN store) \cup {fp} |-> IF k = fp THEN entry ELSE store[k]]

\* A delete that leaves the entries where they are.
WithoutNothing(store, fps) == store

Without(store, fps) == [k \in (DOMAIN store) \ fps |-> store[k]]

\* A registration that binds its hooks to every event kind.
ListensAll(event) == TRUE

\* The event kinds the hooks are bound to (lines 331-335, 342).
Listens(event) == event \in monitorOptions.events

\* The accountability the snapshot is read with (line 369): the acting
\* user's, or null, which reads without access restrictions.
Accountability ==
  IF Truthy(monitorOptions.useAccountability) THEN "user" ELSE "null"

\* A capture that takes the monitored fields whatever the payload holds.
CaptureFieldsAll(eventName, payload) == monitorOptions.fields

\* A capture that treats a delete as it treats an update.
CaptureFieldsOfPayload(eventName, payload) ==
  IF monitorOptions.includeUnchanged
  THEN monitorOptions.fields
  ELSE {f \in DOMAIN payload :
          monitorOptions.fields = {} \/ f \in monitorOptions.fields}

\* The fields the filter hook captures (lines 356-361).
CaptureFields(eventName, payload) ==
  IF monitorOptions.includeUnchanged \/ eventName = "delete"
  THEN monitorOptions.fields
  ELSE {f \in DOMAIN payload :
          monitorOptions.fields = {} \/ f \in monitorOptions.fields}

\* A sweep that finds no entry old enough.
OldMutationsNone(store, t) == {}

\* A sweep that also reclaims the entries that are exactly five minutes old.
OldMutationsInclusive(store, t) ==
  {k \in DOMAIN store : t - store[k].timestamp >= FIVE_MINUTES}

\* The fingerprints the sweep removes (lines 392-397).
OldMutations(store, t) ==
  {k \in DOMAIN store : t - store[k].timestamp > FIVE_MINUTES}

\* The phases in which a mutation is over: its action hook returned or
\* threw, its write failed, or its filter hook threw.
Finished == {"done", "aborted", "failed", "archived"}

\* What is remembered of a mutation that was over when a later one started.
\* The event, the keys, whether a sweep removed its entry, and the fields the
\* handler was told about.
Archived(op) ==
  [IdleOp EXCEPT
     !.pc = "archived", !.event = op.event,
     !.keys = Ascending(Range(op.keys)),
     !.swept = op.swept,
     !.fields =
       UNION {UNION {DOMAIN op.result.calls[c].mutations[i].current :
                       i \in 1..Len(op.result.calls[c].mutations)} :
                c \in 1..Len(op.result.calls)}]

\* The host starts a mutation: it fixes the event, the keys and the payload.
\* A create gets a key the store does not hold yet; a delete's payload is the
\* array of keys itself.
Start(o, keySeqs, payloads) ==
  /\ ops[o].pc = "idle"
  /\ \A p \in OpIds : p < o => ops[p].pc # "idle"
  /\ \E event \in EventNames, keys \in keySeqs, payload \in payloads :
       /\ event = "create" => Len(keys) = 1 /\ keys[1] \notin DOMAIN db
       /\ event = "delete" => payload = EmptyObject
       /\ ops' = [p \in OpIds |->
                    IF p = o
                    THEN [IdleOp EXCEPT !.pc = "begun", !.event = event,
                                        !.keys = keys, !.payload = payload,
                                        !.sent = payload]
                    ELSE IF ops[p].pc \in Finished THEN Archived(ops[p])
                    ELSE ops[p]]
  /\ UNCHANGED <<aside, monitorOptions, mutationsInProgress, db, now, ticks>>

\* A host that starts a mutation when the one before it is over.
Begin(o) ==
  /\ \A p \in OpIds : ops[p].pc \in Finished \cup {"idle"}
  /\ Start(o, KeySeqs, Payloads)

\* The filter hook of a create event returns at once (lines 345-348).
FilterCreate(o) ==
  /\ ops[o].pc = "begun"
  /\ ops[o].event = "create"
  /\ Listens(ops[o].event)
  /\ ops' = [ops EXCEPT ![o].pc = "captured"]
  /\ UNCHANGED <<aside, monitorOptions, mutationsInProgress, db, now, ticks>>

\* The filter hook of an update or delete event (lines 349-403): the keys are
\* sorted in place by createFingerprint, the items are read, the entry is put
\* and the sweep runs.
Filter(o) ==
  /\ ops[o].pc = "begun"
  /\ ops[o].event \in {"update", "delete"}
  /\ Listens(ops[o].event)
  /\ LET op == ops[o]
         fields == CaptureFields(op.event, op.payload)
         fingerprint == createFingerprint(op.event, op.keys)
         keys == SortKeys(op.keys)
         currentItems == ReadMany(keys, fields)
         entry == [timestamp |-> now, event |-> op.event, keys |-> keys,
                   fields |-> fields, current |-> currentItems, owner |-> o]
         put == Put(mutationsInProgress, fingerprint, entry)
         oldMutations == OldMutations(put, now)
         owners == {put[k].owner : k \in oldMutations}
     IN /\ mutationsInProgress' = Without(put, oldMutations)
        /\ ops' = [p \in OpIds |->
                     IF p = o
                     THEN [op EXCEPT !.pc = "captured",
                                     !.fields = fields,
                                     !.captured = currentItems,
                                     !.before = [k \in Range(keys) \cap DOMAIN db |-> db[k]],
                                     !.removed = SetToSeq(oldMutations),
                                     !.accountability = Accountability,
                                     !.swept = (o \in owners)]
                     ELSE IF p \in owners
                     THEN [ops[p] EXCEPT !.swept = TRUE]
                     ELSE ops[p]]
  /\ UNCHANGED <<aside, monitorOptions, db, now, ticks>>

\* A filter hook that puts its entry before it awaits the read that rejects.
FilterFailsAfterPut(o) ==
  /\ ops[o].pc = "begun"
  /\ ops[o].event \in {"update", "delete"}
  /\ Listens(ops[o].event)
  /\ mutationsInProgress' =
       Put(mutationsInProgress, createFingerprint(ops[o].event, ops[o].keys),
           [timestamp |-> now, event |-> ops[o].event,
            keys |-> SortKeys(ops[o].keys),
            fields |-> CaptureFields(ops[o].event, ops[o].payload),
            current |-> <<>>, owner |-> o])
  /\ ops' = [ops EXCEPT ![o].pc = "failed"]
  /\ UNCHANGED <<aside, monitorOptions, db, now, ticks>>

\* A filter hook that sweeps before it awaits the read that rejects.
FilterFailsAfterSweep(o) ==
  /\ ops[o].pc = "begun"
  /\ ops[o].event \in {"update", "delete"}
  /\ Listens(ops[o].event)
  /\ LET oldMutations == OldMutations(mutationsInProgress, now)
         owners == {mutationsInProgress[k].owner : k \in oldMutations}
     IN /\ mutationsInProgress' = Without(mutationsInProgress, oldMutations)
        /\ ops' = [p \in OpIds |->
                     IF p = o
                     THEN [ops[o] EXCEPT !.pc = "failed",
                                         !.removed = SetToSeq(oldMutations)]
                     ELSE IF p \in owners
                     THEN [ops[p] EXCEPT !.swept = TRUE]
                     ELSE ops[p]]
  /\ UNCHANGED <<aside, monitorOptions, db, now, ticks>>

\* readMany rejects: the filter hook throws before it puts anything.
FilterFails(o) ==
  /\ ops[o].pc = "begun"
  /\ ops[o].event \in {"update", "delete"}
  /\ Listens(ops[o].event)
  /\ ops' = [ops EXCEPT ![o].pc = "failed"]
  /\ UNCHANGED <<aside, monitorOptions, mutationsInProgress, db, now, ticks>>

\* Another filter hook of the host adds a field to, or removes one from, the
\* payload of an update after this registration's filter hook ran.
OtherFilterHook(o) ==
  /\ ops[o].pc = "captured"
  /\ ops[o].event = "update"
  /\ ~ops[o].modified
  /\ \E payload \in Payloads :
       /\ \/ \E f \in DOMAIN payload :
               ops[o].payload = DeleteProps(payload, {f})
          \/ \E f \in DOMAIN ops[o].payload :
               payload = DeleteProps(ops[o].payload, {f})
       /\ ops' = [ops EXCEPT ![o].payload = payload, ![o].modified = TRUE]
  /\ UNCHANGED <<aside, monitorOptions, mutationsInProgress, db, now, ticks>>

\* The host writes the mutation to the store.
Write(o) ==
  /\ ops[o].pc = "captured"
  /\ ops[o].event = "create" => Range(ops[o].keys) \cap DOMAIN db = {}
  /\ db' = Written(ops[o].event, ops[o].keys, ops[o].payload)
  /\ ops' = [ops EXCEPT ![o].pc = "committed"]
  /\ UNCHANGED <<aside, monitorOptions, mutationsInProgress, now, ticks>>

\* The write fails: the action hook of this mutation never fires.
WriteFails(o) ==
  /\ ops[o].pc = "captured"
  /\ ops' = [ops EXCEPT ![o].pc = "aborted"]
  /\ UNCHANGED <<aside, monitorOptions, mutationsInProgress, db, now, ticks>>

\* Time passes.  The clock is read only to stamp an entry and to compare the
\* stamps of the entries with it, so it is advanced while there is an entry.
Tick ==
  /\ ticks < MaxTicks
  /\ DOMAIN mutationsInProgress # {}
  /\ \E d \in TickSteps : now' = now + d
  /\ ticks' = ticks + 1
  /\ UNCHANGED <<aside, monitorOptions, mutationsInProgress, db, ops>>

\* ------------------------------------------------------------ action hook

\* The current of a create's Change Record (lines 412-424): the payload
\* without the fields that are not monitored, and null for every monitored
\* field the payload does not set.
CreateCurrent(payload) ==
  LET current == DeleteProps(payload, (DOMAIN payload) \ monitorOptions.fields)
  IN [f \in (DOMAIN current) \cup monitorOptions.fields |->
        IF Get(current, f) = Undefined THEN Null ELSE current[f]]

\* The Change Record of a create (line 426); it carries no hasChanged.
CreateMutation(key, payload) ==
  [action |-> "create", key |-> key, previous |-> EmptyObject,
   current |-> CreateCurrent(payload), hasChanged |-> "undefined"]

\* The Change Records of a delete (lines 451-459), one per captured item.
DeleteMutations(mutation) ==
  [i \in 1..Len(mutation.current) |->
     [action |-> "delete", key |-> mutation.current[i].key,
      previous |-> mutation.current[i].data, current |-> EmptyObject,
      hasChanged |-> "false"]]

\* The monitored fields of the committed payload (lines 468-472).
DispatchFields(payloadKeys) ==
  IF monitorOptions.includeUnchanged
  THEN monitorOptions.fields
  ELSE {f \in payloadKeys :
          monitorOptions.fields = {} \/ f \in monitorOptions.fields}

\* A reconciliation that leaves the captured items as they are.
ReconciledNothing(items, removedFields) == items

\* The captured items after the removed fields were deleted (lines 473-476).
Reconciled(items, removedFields) ==
  [i \in 1..Len(items) |->
     [key |-> items[i].key, data |-> DeleteProps(items[i].data, removedFields)]]

\* The indices of the items mutation.current.find accepts for key (line 488).
Found(items, key) ==
  {i \in 1..Len(items) : ToString(items[i].key) = ToString(key)}

\* The keys for which find returns undefined, so that reading .data throws.
Unfound(items, keys) == {k \in Range(keys) : Found(items, k) = {}}

\* current of line 489.
UpdateCurrent(previous, payload) ==
  Spread(IF monitorOptions.includeUnchanged THEN previous ELSE EmptyObject,
         payload)

\* A comparison that reports a change for every key.
HasChangesAlways(previous, current) == TRUE

\* hasChangesToMonitoredFields of line 494.
HasChangesToMonitoredFields(previous, current) ==
  \E field \in monitorOptions.fields :
    Get(previous, field) # Get(current, field)

\* A shake-out that keeps the unchanged fields.
ShakenOutUnmonitored(previous, current) ==
  {field \in (DOMAIN previous) \cup (DOMAIN current) :
     field \notin monitorOptions.fields}

\* A shake-out that drops the unchanged fields whatever includeUnchanged says.
ShakenOutUnchanged(previous, current) ==
  {field \in (DOMAIN previous) \cup (DOMAIN current) :
     \/ field \notin monitorOptions.fields
     \/ Get(previous, field) = Get(current, field)}

\* The fields the shake-out loop deletes from previous and current
\* (lines 497-505).
ShakenOut(previous, current) ==
  {field \in (DOMAIN previous) \cup (DOMAIN current) :
     \/ field \notin monitorOptions.fields
     \/ (~monitorOptions.includeUnchanged
         /\ Get(previous, field) = Get(current, field))}

\* The Change Record of one key of an update (lines 506-518).
UpdateMutation(key, previous, current) ==
  [action |-> "update", key |-> key,
   previous |-> DeleteProps(previous, ShakenOut(previous, current)),
   current |-> DeleteProps(current, ShakenOut(previous, current)),
   hasChanged |-> "compare"]

\* The mutations array of lines 486-520 when every key has a captured item:
\* one record per key, in the order of keys, for the keys with a change.
UpdateMutations(items, keys, payload) ==
  LET previous(i) == items[CHOOSE j \in Found(items, keys[i]) :
                             \A l \in Found(items, keys[i]) : j <= l].data
      current(i) == UpdateCurrent(previous(i), payload)
      all == [i \in 1..Len(keys) |->
                [changed |-> HasChangesToMonitoredFields(previous(i), current(i)),
                 mutation |-> UpdateMutation(keys[i], previous(i), current(i))]]
      changed == SelectSeq(all, LAMBDA r : r.changed)
  IN [i \in 1..Len(changed) |-> changed[i].mutation]

\* hasChanged of a Change Record (lines 456-458 and 511-517).
hasChanged(m, field, from, to) ==
  /\ m.hasChanged = "compare"
  /\ Get(m.previous, field) # Get(m.current, field)
  /\ (from = Undefined \/ Get(m.previous, field) = from)
  /\ (to = Undefined \/ Get(m.current, field) = to)

\* One logger.warn per added field (lines 478-483).
AddedWarnings(addedFields) ==
  [i \in 1..Len(SetToSeq(addedFields)) |->
     [kind |-> "added", field |-> SetToSeq(addedFields)[i]]]

\* One invocation of the handler: what it was given, and whether it raised.
Call(event, mutations, payload, raised) ==
  [event |-> event, mutations |-> mutations, payload |-> payload,
   raised |-> raised]

\* A guard that lets an empty mutations array through.
ShouldCallAlways(mutations) == TRUE

\* mutations.length > 0 of line 523.
ShouldCall(mutations) == Len(mutations) > 0

\* Lines 466-529, which an update runs after the lookup and a delete runs
\* after its handler call: reconcile the fields, build the mutations of the
\* keys, call the handler when there are any.  Reading .data of an item that
\* find did not return throws a TypeError out of the hook.
UpdatePath(mutation, keys, payload, event, metaPayload, raised) ==
  LET fields == DispatchFields(DOMAIN payload)
      removedFields == mutation.fields \ fields
      items == Reconciled(mutation.current, removedFields)
      addedFields == fields \ mutation.fields
      throws == Unfound(items, keys) # {}
      mutations == IF throws THEN <<>>
                   ELSE UpdateMutations(items, keys, payload)
  IN [calls |-> IF ~throws /\ ShouldCall(mutations)
                THEN <<Call(event, mutations, metaPayload, raised)>>
                ELSE <<>>,
      warnings |-> AddedWarnings(addedFields),
      threw |-> throws]

\* The handler calls of the delete shortcut (lines 448-464).
DeletePath(mutation, event, metaPayload, raised) ==
  <<Call(event, DeleteMutations(mutation), metaPayload, raised)>>

\* The number of calls that raised: each is caught and logged as an error.
Raised(calls) == Cardinality({i \in 1..Len(calls) : calls[i].raised})

\* The action hook of a create event (lines 410-434).
ActionCreate(o) ==
  /\ ops[o].pc = "committed"
  /\ ops[o].event = "create"
  /\ Listens(ops[o].event)
  /\ \E raised \in BOOLEAN :
       LET op == ops[o]
           mutations == <<CreateMutation(op.keys[1], op.payload)>>
           calls == <<Call(op.event, mutations, op.payload, raised)>>
       IN ops' = [ops EXCEPT ![o].pc = "done",
                             ![o].result =
                               [NoResult EXCEPT !.reported = op.keys,
                                                !.calls = calls,
                                                !.errors = Raised(calls)]]
  /\ UNCHANGED <<aside, monitorOptions, mutationsInProgress, db, now, ticks>>

\* A lookup that returns without a warning when it finds no entry.
UnmatchedSilent(reported) == [NoResult EXCEPT !.reported = reported]

\* What the action hook does when it finds no entry (lines 440-444): one
\* logger.warn, then return.
Unmatched(reported) ==
  [NoResult EXCEPT !.reported = reported,
                   !.warnings = <<[kind |-> "unmatched", field |-> ""]>>]

\* The action hook of an update or delete event that finds no entry under
\* its fingerprint (lines 435-444).  The host reports the keys of the
\* mutation in any order.
ActionUnmatched(o) ==
  /\ ops[o].pc = "committed"
  /\ ops[o].event \in {"update", "delete"}
  /\ Listens(ops[o].event)
  /\ \E reported \in KeySeqs :
       /\ Range(reported) = Range(ops[o].keys)
       /\ createFingerprint(ops[o].event, reported) \notin DOMAIN mutationsInProgress
       /\ ops' = [ops EXCEPT ![o].pc = "done",
                             ![o].result = Unmatched(reported)]
  /\ UNCHANGED <<aside, monitorOptions, mutationsInProgress, db, now, ticks>>

\* The action hook of an update or delete event that finds its entry
\* (lines 435-529): the entry is removed, a delete calls the handler with one
\* record per captured item, and both events run lines 466-529.
ActionMatched(o) ==
  /\ ops[o].pc = "committed"
  /\ ops[o].event \in {"update", "delete"}
  /\ Listens(ops[o].event)
  /\ \E reported \in KeySeqs, raised \in BOOLEAN :
       LET op == ops[o]
           fingerprint == createFingerprint(op.event, reported)
           keys == SortKeys(reported)
       IN /\ Range(reported) = Range(op.keys)
          /\ fingerprint \in DOMAIN mutationsInProgress
          /\ LET mutation == mutationsInProgress[fingerprint]
                 isDelete == op.event = "delete"
                 payload == IF isDelete THEN ArrayObject(keys) ELSE op.payload
                 metaPayload == IF isDelete THEN keys ELSE op.payload
                 first == IF isDelete
                          THEN DeletePath(mutation, op.event, metaPayload, raised)
                          ELSE <<>>
                 rest == UpdatePath(mutation, keys, payload, op.event,
                                    metaPayload, raised)
                 calls == first \o rest.calls
             IN /\ mutationsInProgress' = Without(mutationsInProgress, {fingerprint})
                /\ ops' = [ops EXCEPT ![o].pc = "done",
                                      ![o].result =
                                        [reported |-> reported, matched |-> TRUE,
                                         owner |-> mutation.owner,
                                         age |-> now - mutation.timestamp,
                                         calls |-> calls,
                                         warnings |-> rest.warnings,
                                         errors |-> Raised(calls),
                                         threw |-> rest.threw]]
  /\ UNCHANGED <<aside, monitorOptions, db, now, ticks>>

Next ==
  \/ \E o \in OpIds : Begin(o)
  \/ \E o \in OpIds : FilterCreate(o)
  \/ \E o \in OpIds : Filter(o)
  \/ \E o \in OpIds : FilterFails(o)
  \/ \E o \in OpIds : OtherFilterHook(o)
  \/ \E o \in OpIds : Write(o)
  \/ \E o \in OpIds : WriteFails(o)
  \/ \E o \in OpIds : ActionCreate(o)
  \/ \E o \in OpIds : ActionMatched(o)

\* One registration under a host that runs one mutation at a time, each
\* within the staleness threshold of the one before: every update and delete
\* dispatch finds the entry of its own capture.
Spec == Init /\ [][Next]_vars

\* The keys and the payloads of the mutations of a host whose mutations
\* overlap and take time.
TimedKeySeqs == {<<9>>, <<10>>}

TimedPayloads == {EmptyObject, [status |-> "published"]}

\* A host that starts a mutation while others are between their hooks.
BeginTimed(o) ==
  /\ \E p \in OpIds : ops[p].pc = "idle"
  /\ Start(o, TimedKeySeqs, TimedPayloads)

NextTimed ==
  \/ \E o \in OpIds : BeginTimed(o)
  \/ \E o \in OpIds : FilterCreate(o)
  \/ \E o \in OpIds : Filter(o)
  \/ \E o \in OpIds : FilterFails(o)
  \/ \E o \in OpIds : Write(o)
  \/ \E o \in OpIds : WriteFails(o)
  \/ \E o \in OpIds : ActionCreate(o)
  \/ \E o \in OpIds : ActionMatched(o)
  \/ \E o \in OpIds : ActionUnmatched(o)
  \/ Tick

\* One registration under a host whose mutations overlap, with a clock that
\* advances between the hooks.
SpecTimed == Init /\ [][NextTimed]_vars

\* ---------------------------------------------------------- registrations

\* A counter that hands the same id to the next registration.
NextHookIdSame(last) == last

\* lastHookId++ of line 336: the value of the counter after a registration.
NextHookId(last) == last + 1

\* createFingerprint of the registration whose hookId is id (lines 336-341).
FingerprintOf(id, event, keys) == <<id, event, SortKeys(keys)>>

\* The state of the single registration, which the registrations below leave
\* alone.
monitorVars == <<monitorOptions, mutationsInProgress, db, ops>>

\* monitor() is called (lines 310-336): the registration takes the counter's
\* value as its hookId, the counter is incremented, and the registration
\* gets a mutationsInProgress object of its own.
Register ==
  /\ Len(hooks) < MaxHooks
  /\ hooks' = Append(hooks, [hookId |-> lastHookId,
                             mutationsInProgress |-> EmptyObject])
  /\ lastHookId' = NextHookId(lastHookId)
  /\ UNCHANGED <<dispatches, utilVars, lockVars, monitorVars, now, ticks, flights>>

\* The host starts an update or a delete of the collection: the filter hook
\* of every registration made so far will run for it.
BeginFlight(f) ==
  /\ flights[f].pc = "idle"
  /\ \A g \in FlightIds : g < f => flights[g].pc # "idle"
  /\ Len(hooks) > 0
  /\ \E event \in {"update", "delete"}, keys \in TimedKeySeqs :
       flights' = [flights EXCEPT
                     ![f] = [IdleFlight EXCEPT
                               !.pc = "begun", !.event = event, !.keys = keys,
                               !.at = [h \in HookIds |->
                                         IF h <= Len(hooks) THEN "begun"
                                         ELSE "none"]]]
  /\ UNCHANGED <<dispatches, utilVars, lockVars, monitorVars, now, ticks, lastHookId, hooks>>

\* The filter hook of registration h for mutation f (lines 362-403, without
\* the items it reads): the entry is put into the registration's own store
\* under the registration's fingerprint, and that store is swept.
CaptureHook(h, f) ==
  /\ flights[f].at[h] = "begun"
  /\ LET store == hooks[h].mutationsInProgress
         fingerprint == FingerprintOf(hooks[h].hookId, flights[f].event,
                                      flights[f].keys)
         entry == [timestamp |-> now, event |-> flights[f].event,
                   keys |-> SortKeys(flights[f].keys), owner |-> <<h, f>>]
         put == Put(store, fingerprint, entry)
     IN hooks' = [hooks EXCEPT ![h].mutationsInProgress =
                                 Without(put, OldMutations(put, now))]
  /\ flights' = [flights EXCEPT ![f].at[h] = "captured"]
  /\ UNCHANGED <<dispatches, utilVars, lockVars, monitorVars, now, ticks, lastHookId>>

\* The action hook of registration h for mutation f (lines 435-446), once
\* every filter hook ran and the write is committed: the entry under the
\* registration's fingerprint, if any, is taken out of its own store.
DispatchHook(h, f) ==
  /\ flights[f].at[h] = "captured"
  /\ \A g \in HookIds : flights[f].at[g] # "begun"
  /\ LET store == hooks[h].mutationsInProgress
         fingerprint == FingerprintOf(hooks[h].hookId, flights[f].event,
                                      flights[f].keys)
     IN IF fingerprint \in DOMAIN store
        THEN /\ hooks' = [hooks EXCEPT ![h].mutationsInProgress =
                                         Without(store, {fingerprint})]
             /\ flights' = [flights EXCEPT ![f].at[h] = "done",
                                           ![f].consumed[h] = store[fingerprint].owner]
        ELSE /\ hooks' = hooks
             /\ flights' = [flights EXCEPT ![f].at[h] = "done"]
  /\ UNCHANGED <<dispatches, utilVars, lockVars, monitorVars, now, ticks, lastHookId>>

\* Time passes while a registration holds an entry.
TickHooks ==
  /\ ticks < MaxTicks
  /\ \E h \in 1..Len(hooks) : DOMAIN hooks[h].mutationsInProgress # {}
  /\ \E d \in TickSteps : now' = now + d
  /\ ticks' = ticks + 1
  /\ UNCHANGED <<dispatches, utilVars, lockVars, monitorVars, lastHookId, hooks, flights>>

\* The single registration is not used.
InitHooks ==
  /\ monitorOptions = [fields |-> {}, includeUnchanged |-> FALSE,
                       events |-> EventNames, useAccountability |-> "true"]
  /\ mutationsInProgress = EmptyObject
  /\ db = [k \in Keys |-> InitialItem]
  /\ ops = [o \in OpIds |-> IdleOp]
  /\ now = 0
  /\ ticks = 0
  /\ NoHooks
  /\ NoLocks
  /\ NoDispatches
  /\ NoUtils

NextHooks ==
  \/ Register
  \/ \E f \in FlightIds : BeginFlight(f)
  \/ \E h \in HookIds, f \in FlightIds : CaptureHook(h, f)
  \/ \E h \in HookIds, f \in FlightIds : DispatchHook(h, f)
  \/ TickHooks

\* Several registrations on one collection, under a host whose mutations
\* overlap.
SpecHooks == InitHooks /\ [][NextHooks]_vars

\* ---------------------------------------------------------------- options

\* The host emits the filter event of a kind the registration bound no hook
\* to (lines 331-335): nothing of the registration runs.
NoFilterHook(o) ==
  /\ ops[o].pc = "begun"
  /\ ~Listens(ops[o].event)
  /\ ops' = [ops EXCEPT ![o].pc = "captured"]
  /\ UNCHANGED <<aside, monitorOptions, mutationsInProgress, db, now, ticks>>

\* The host emits the action event of a kind the registration bound no hook
\* to.
NoActionHook(o) ==
  /\ ops[o].pc = "committed"
  /\ ~Listens(ops[o].event)
  /\ ops' = [ops EXCEPT ![o].pc = "done"]
  /\ UNCHANGED <<aside, monitorOptions, mutationsInProgress, db, now, ticks>>

\* A host that starts a mutation when the one before it is over.
BeginOptions(o) ==
  /\ \A p \in OpIds : ops[p].pc \in Finished \cup {"idle"}
  /\ Start(o, TimedKeySeqs, TimedPayloads)

\* monitor() was called with any of the arguments of MonitorArgs.
InitOptions ==
  /\ monitorOptions \in {MonitorOptionsOf(arg) : arg \in MonitorArgs}
  /\ mutationsInProgress = EmptyObject
  /\ db \in {[k \in S |-> InitialItem] : S \in {Keys, {9}}}
  /\ ops = [o \in OpIds |-> IdleOp]
  /\ now = 0
  /\ ticks = 0
  /\ NoHooks
  /\ NoLocks
  /\ NoDispatches
  /\ NoUtils

NextOptions ==
  \/ \E o \in OpIds : BeginOptions(o)
  \/ \E o \in OpIds : FilterCreate(o)
  \/ \E o \in OpIds : Filter(o)
  \/ \E o \in OpIds : FilterFails(o)
  \/ \E o \in OpIds : NoFilterHook(o)
  \/ \E o \in OpIds : Write(o)
  \/ \E o \in OpIds : WriteFails(o)
  \/ \E o \in OpIds : ActionCreate(o)
  \/ \E o \in OpIds : ActionMatched(o)
  \/ \E o \in OpIds : NoActionHook(o)

\* One registration made with any events and useAccountability options,
\* under a host that runs one mutation at a time.
SpecOptions == InitOptions /\ [][NextOptions]_vars

\* ------------------------------------------------------------------ locks

\* new ThreadSafeLock(target, shared) (lines 12-29); emitted tells whether
\* the lock has emitted 'released', after which its once-listener is gone.
NewLock(target, shared) ==
  [target |-> target, shared |-> shared, shares |-> 0, queue |-> <<>>,
   emitted |-> FALSE]

\* A release that grants the head of the queue and nothing behind it.
GrantCountOne(queue) == 1

\* The number of requests at the head of a non-empty queue that one release
\* grants (lines 35-43): the first, and when it is shared every shared one
\* that follows it directly.
GrantCount(queue) ==
  IF ~queue[1].shared THEN 1
  ELSE CHOOSE n \in 1..Len(queue) :
         /\ \A i \in 1..n : queue[i].shared
         /\ n = Len(queue) \/ ~queue[n + 1].shared

\* acquireLock(target, shared) by caller l (lines 72-87).  Without a
\* registered lock a new one is created, registered and returned at once.
\* Otherwise request (lines 50-61) grants a shared request on a shared lock
\* by counting it in shares, and queues every other request.
AcquireLock(l, target, shared) ==
  /\ lockers[l].pc = "idle"
  /\ IF target \notin DOMAIN currentLocks
     THEN /\ lockObjects' = Append(lockObjects, NewLock(target, shared))
          /\ currentLocks' = Put(currentLocks, target, Len(lockObjects) + 1)
          /\ lockers' = [lockers EXCEPT
                           ![l] = [pc |-> "holding", target |-> target,
                                   shared |-> shared,
                                   lock |-> Len(lockObjects) + 1]]
     ELSE LET id == currentLocks[target]
              existingLock == lockObjects[id]
          IN /\ currentLocks' = currentLocks
             /\ IF existingLock.shared /\ shared
                THEN /\ lockObjects' = [lockObjects EXCEPT ![id].shares = @ + 1]
                     /\ lockers' = [lockers EXCEPT
                                      ![l] = [pc |-> "holding", target |-> target,
                                              shared |-> shared, lock |-> id]]
                ELSE /\ lockObjects' =
                          [lockObjects EXCEPT
                             ![id].queue = Append(@, [shared |-> shared,
                                                      grant |-> l])]
                     /\ lockers' = [lockers EXCEPT
                                      ![l] = [pc |-> "waiting", target |-> target,
                                              shared |-> shared, lock |-> id]]
  /\ UNCHANGED <<dispatches, utilVars, monitorVars, now, ticks, lastHookId, hooks, flights>>

\* release() by a caller that holds its lock (lines 31-48): a shared lock
\* with extra shares gives one up; otherwise the head of the queue is
\* granted, with the shared requests behind a shared head; otherwise the lock
\* emits 'released', and the first time it does its listener removes the
\* target from currentLocks (lines 77-79).
Release(l) ==
  /\ lockers[l].pc = "holding"
  /\ LET id == lockers[l].lock
         lock == lockObjects[id]
     IN IF lock.shared /\ lock.shares > 0
        THEN /\ lockObjects' = [lockObjects EXCEPT ![id].shares = @ - 1]
             /\ lockers' = [lockers EXCEPT ![l].pc = "released"]
             /\ currentLocks' = currentLocks
        ELSE IF Len(lock.queue) > 0
        THEN LET n == GrantCount(lock.queue)
                 granted == {lock.queue[i].grant : i \in 1..n}
             IN /\ lockObjects' =
                     [lockObjects EXCEPT
                        ![id].shared = lock.queue[1].shared,
                        ![id].queue = SubSeq(lock.queue, n + 1, Len(lock.queue))]
                /\ lockers' = [x \in Lockers |->
                                 IF x = l
                                 THEN [lockers[x] EXCEPT !.pc = "released"]
                                 ELSE IF x \in granted
                                 THEN [lockers[x] EXCEPT !.pc = "holding"]
                                 ELSE lockers[x]]
                /\ currentLocks' = currentLocks
        ELSE /\ lockObjects' = [lockObjects EXCEPT ![id].emitted = TRUE]
             /\ lockers' = [lockers EXCEPT ![l].pc = "released"]
             /\ currentLocks' = IF lock.emitted THEN currentLocks
                                ELSE Without(currentLocks, {lock.target})
  /\ UNCHANGED <<dispatches, utilVars, monitorVars, now, ticks, lastHookId, hooks, flights>>

\* The module of the locks is loaded; the monitor hook is not used.
InitLock ==
  /\ monitorOptions = [fields |-> {}, includeUnchanged |-> FALSE,
                       events |-> EventNames, useAccountability |-> "true"]
  /\ mutationsInProgress = EmptyObject
  /\ db = [k \in Keys |-> InitialItem]
  /\ ops = [o \in OpIds |-> IdleOp]
  /\ now = 0
  /\ ticks = 0
  /\ NoHooks
  /\ NoLocks
  /\ NoDispatches
  /\ NoUtils

NextLock ==
  \/ \E l \in Lockers, target \in Targets, shared \in BOOLEAN :
       AcquireLock(l, target, shared)
  \/ \E l \in Lockers : Release(l)

\* Callers that acquire and release locks in any order.
SpecLock == InitLock /\ [][NextLock]_vars

\* ---------------------------------------------------- locks without end

\* A caller that released its lock comes back: it may call acquireLock
\* again.
ComesBack(l) ==
  /\ lockers[l].pc = "released"
  /\ lockers' = [lockers EXCEPT ![l] = IdleLocker]
  /\ UNCHANGED <<currentLocks, lockObjects>>
  /\ UNCHANGED <<dispatches, utilVars, monitorVars, now, ticks, lastHookId, hooks,
                 flights>>

\* acquireLock of target 'a' while the behaviour has created fewer than
\* MaxLocks locks or the target has a registered lock.
AcquireLockAgain(l, shared) ==
  /\ "a" \notin DOMAIN currentLocks => Len(lockObjects) < MaxLocks
  /\ AcquireLock(l, "a", shared)

NextLockLive ==
  \/ \E l \in Lockers, shared \in BOOLEAN : AcquireLockAgain(l, shared)
  \/ \E l \in Lockers : Release(l)
  \/ \E l \in Lockers : ComesBack(l)

\* Callers that acquire locks of one target again and again; every caller
\* that holds a lock calls release.
SpecLockLive ==
  /\ InitLock
  /\ [][NextLockLive]_vars
  /\ \A l \in Lockers : WF_vars(Release(l))

\* ------------------------------------------------- captures without end

\* The clock of a behaviour without end is read relative to the present:
\* now stays where it is and the timestamps of the entries move into the
\* past, no further than one millisecond beyond the staleness threshold,
\* where all older entries are alike for the sweep.
LiveNow == FIVE_MINUTES + 1

\* The ages an entry goes through: just put, young, exactly five minutes
\* old, older.
LiveAges == {0, 1, FIVE_MINUTES, FIVE_MINUTES + 1}

\* The filter hook of an update or delete completes (lines 362-403): it puts
\* its entry and sweeps.  owner tells the entry from the one it replaces.
LiveCapture(event, keys) ==
  LET fingerprint == createFingerprint(event, keys)
      fields == CaptureFields(event, EmptyObject)
      entry == [timestamp |-> now, event |-> event, keys |-> SortKeys(keys),
                fields |-> fields, current |-> ReadMany(SortKeys(keys), fields),
                owner |-> IF fingerprint \in DOMAIN mutationsInProgress
                          THEN 1 - mutationsInProgress[fingerprint].owner
                          ELSE 0]
      put == Put(mutationsInProgress, fingerprint, entry)
  IN /\ mutationsInProgress' = Without(put, OldMutations(put, now))
     /\ UNCHANGED <<aside, monitorOptions, db, ops, now, ticks>>

\* The action hook of an update or delete finds its entry and removes it
\* (lines 438-446).
LiveDispatch(event, keys) ==
  LET fingerprint == createFingerprint(event, keys)
  IN /\ fingerprint \in DOMAIN mutationsInProgress
     /\ mutationsInProgress' = Without(mutationsInProgress, {fingerprint})
     /\ UNCHANGED <<aside, monitorOptions, db, ops, now, ticks>>

\* Time passes: every entry grows older by d.
Elapse(d) ==
  LET aged == [fp \in DOMAIN mutationsInProgress |->
                 [mutationsInProgress[fp] EXCEPT
                    !.timestamp = IF @ > d THEN @ - d ELSE 0]]
  IN /\ \A fp \in DOMAIN aged : now - aged[fp].timestamp \in LiveAges
     /\ mutationsInProgress' = aged
     /\ UNCHANGED <<aside, monitorOptions, db, ops, now, ticks>>

InitLive ==
  /\ monitorOptions = [fields |-> {"status"}, includeUnchanged |-> FALSE,
                       events |-> EventNames, useAccountability |-> "true"]
  /\ mutationsInProgress = EmptyObject
  /\ db = [k \in Keys |-> InitialItem]
  /\ ops = [o \in OpIds |-> IdleOp]
  /\ now = LiveNow
  /\ ticks = 0
  /\ NoHooks
  /\ NoLocks
  /\ NoDispatches
  /\ NoUtils

\* Update and delete captures that complete.
LiveCaptures ==
  \E event \in {"update", "delete"}, keys \in TimedKeySeqs :
    LiveCapture(event, keys)

\* The clock advances.
LiveClock == \E d \in TickSteps : Elapse(d)

NextLive ==
  \/ LiveCaptures
  \/ \E event \in {"update", "delete"}, keys \in TimedKeySeqs :
       LiveDispatch(event, keys)
  \/ LiveClock

\* One registration in a host that never stops: captures keep completing
\* and time keeps passing, while any dispatch may fail to arrive.
SpecLive ==
  InitLive /\ [][NextLive]_vars /\ WF_vars(LiveCaptures) /\ WF_vars(LiveClock)

\* ---------------------------------------------------------- minimalUpsert

\* The primary key field of the service's collection (line 79).
pkField == "id"

\* Values are written as tagged strings: "n0" and "n1" are the numbers 0 and
\* 1, "snull" is the string 'null'; Null and Undefined are as above.
UpsertKeys == {"n1", "n2"}

\* The keys createOne can give to an item that comes without one.
GeneratedKeys == {"n3", "n4"}

\* context.event.schema.collections[service.collection].fields: an integer
\* primary key, an integer field and a string field, none of them relational.
FieldInfo ==
  [id   |-> [field |-> "id",   type |-> "integer", special |-> {}],
   qty  |-> [field |-> "qty",  type |-> "integer", special |-> {}],
   name |-> [field |-> "name", type |-> "string",  special |-> {}]]

\* The values the fields other than the primary key can hold.
FieldValues == [qty |-> {Null, "n0", "n1"}, name |-> {Null, "snull"}]

\* Number(v)
NumberOf(v) == IF v = Null THEN "n0" ELSE v

\* String(v)
StringOf(v) == IF v = Null THEN "snull" ELSE v

\* cloneDeep of an object of plain values (lines 88-110): properties whose
\* value is undefined are not copied.
cloneDeep(val) == [f \in {g \in DOMAIN val : val[g] # Undefined} |-> val[f]]

\* getUpdateInfo of an object without relational fields (lines 114-165): its
\* fields, and a filter on the primary key when the object carries one.
getUpdateInfo(obj) ==
  [fields |-> DOMAIN obj,
   filter |-> IF pkField \in DOMAIN obj THEN (pkField :> obj[pkField])
              ELSE EmptyObject]

\* pkFilter after lines 80-85: an undefined primary key is dropped from it,
\* and a filter without properties counts as no filter.
GivenFilter(pkFilter) ==
  LET dropped == IF pkFilter.given /\ Get(pkFilter.filter, pkField) = Undefined
                 THEN DeleteProps(pkFilter.filter, {pkField})
                 ELSE pkFilter.filter
  IN IF pkFilter.given /\ DOMAIN dropped # {}
     THEN [given |-> TRUE, filter |-> dropped]
     ELSE [given |-> FALSE, filter |-> EmptyObject]

\* An item as the service returns it, with its primary key.
StoredItem(store, key) == Spread(store[key], pkField :> key)

\* service.readByQuery({ fields, filter }): the keys of the items whose
\* fields equal the values of the filter.
readByQuery(store, filter) ==
  {key \in DOMAIN store :
     \A f \in DOMAIN filter : StoredItem(store, key)[f] = filter[f]}

\* isEqual of removeUnchangedValues (lines 277-297) for the field's type.
isEqual(field, a, b) ==
  LET fieldInfo == FieldInfo[field]
  IN IF fieldInfo.special \cap {"date-updated", "date-created"} # {} THEN TRUE
     ELSE IF fieldInfo.type \in {"decimal", "float", "integer"}
     THEN NumberOf(a) = NumberOf(b)
     ELSE IF fieldInfo.type = "string" THEN StringOf(a) = StringOf(b)
     ELSE a = b

\* removeUnchangedValues(currentItem, update) for plain values (lines
\* 238-302): a field that the current item has with an equal value is
\* deleted from the update, the primary key excepted (line 298); a primary
\* key that is left alone in the update is deleted as well (lines 270-272).
removeUnchangedValues(current, updated) ==
  LET unchanged == {f \in DOMAIN updated :
                      /\ f \in DOMAIN current
                      /\ isEqual(f, current[f], updated[f])
                      /\ f # pkField}
      changed == DeleteProps(updated, unchanged)
  IN IF DOMAIN changed = {pkField} THEN EmptyObject ELSE changed

\* The item createOne stores: the fields it is given, null for the others.
NewItem(update) ==
  [f \in DOMAIN FieldValues |-> IF f \in DOMAIN update THEN update[f] ELSE Null]

\* The key createOne gives the item: the one it comes with, or a new one.
NewKey(store, update) ==
  IF Get(update, pkField) \in {Undefined, Null}
  THEN IF "n3" \in DOMAIN store THEN "n4" ELSE "n3"
  ELSE update[pkField]

\* The item after updateOne(key, update).
UpdatedItem(item, update) ==
  [f \in DOMAIN item |-> IF f \in DOMAIN update THEN update[f] ELSE item[f]]

\* The arguments callers pass: data with or without a primary key and with
\* any of the fields, and a filter that is left out, empty, on the primary
\* key or on another field.
UpsertData ==
  UNION {[S -> {Undefined, Null, "n0", "n1", "n2", "snull"}] :
           S \in SUBSET {"id", "qty", "name"}}

TypedData ==
  {data \in UpsertData :
     /\ "id" \in DOMAIN data => data.id \in {Null} \cup UpsertKeys
     /\ "qty" \in DOMAIN data => data.qty \in FieldValues.qty \cup {Undefined}
     /\ "name" \in DOMAIN data => data.name \in FieldValues.name}

PkFilters ==
  {[given |-> FALSE, filter |-> EmptyObject],
   [given |-> TRUE, filter |-> EmptyObject],
   [given |-> TRUE, filter |-> (pkField :> Undefined)],
   [given |-> TRUE, filter |-> (pkField :> "n1")],
   [given |-> TRUE, filter |-> ("name" :> "snull")]}

\* minimalUpsert(context, service, data, pkFilter) (lines 71-314), the whole
\* call: look the item up, then create it, leave it or update it.  The call
\* is recorded with the collection it found, the items the lookup matched,
\* the writes it made through the service and the data object afterwards.
minimalUpsert(data, pkFilter) ==
  LET update == cloneDeep(data)
      info == getUpdateInfo(update)
      given == GivenFilter(pkFilter)
      filter == Spread(given.filter, info.filter)
      looksUp == given.given \/ Get(filter, pkField) # Undefined
      existing == IF looksUp THEN readByQuery(collection, filter) ELSE {}
      call == [data |-> data, pkFilter |-> pkFilter, before |-> collection,
               lookup |-> looksUp, existing |-> existing]
  IN /\ Len(upserts) < MaxUpserts
     /\ IF Cardinality(existing) > 1
        THEN \* line 178
             /\ upserts' = Append(upserts,
                  call @@ [action |-> "error", key |-> Undefined,
                           writes |-> <<>>, dataAfter |-> data])
             /\ collection' = collection
        ELSE IF existing = {}
        THEN \* lines 181-187
             LET dataAfter == IF Get(data, pkField) = Null
                              THEN DeleteProps(data, {pkField}) ELSE data
                 key == NewKey(collection, update)
                 write == [op |-> "createOne", key |-> key, payload |-> update]
             IN IF key \in DOMAIN collection
                THEN /\ upserts' = Append(upserts,
                          call @@ [action |-> "error", key |-> Undefined,
                                   writes |-> <<write>>,
                                   dataAfter |-> dataAfter])
                     /\ collection' = collection
                ELSE /\ upserts' = Append(upserts,
                          call @@ [action |-> "create", key |-> key,
                                   writes |-> <<write>>,
                                   dataAfter |-> dataAfter])
                     /\ collection' = Put(collection, key, NewItem(update))
        ELSE \* lines 304-313
             LET pkValue == CHOOSE key \in existing : TRUE
                 currentItem ==
                   [f \in {pkField} \cup info.fields |->
                      StoredItem(collection, pkValue)[f]]
                 changes == removeUnchangedValues(currentItem, update)
                 write == [op |-> "updateOne", key |-> pkValue,
                           payload |-> changes]
             IN IF DOMAIN changes = {}
                THEN /\ upserts' = Append(upserts,
                          call @@ [action |-> "none", key |-> pkValue,
                                   writes |-> <<>>, dataAfter |-> data])
                     /\ collection' = collection
                ELSE /\ upserts' = Append(upserts,
                          call @@ [action |-> "update", key |-> pkValue,
                                   writes |-> <<write>>, dataAfter |-> data])
                     /\ collection' =
                          [collection EXCEPT
                             ![pkValue] = UpdatedItem(@, changes)]
     /\ UNCHANGED <<dispatches, configEndpoints, requests, lockVars, monitorVars, now,
                    ticks, lastHookId, hooks, flights>>

\* The collections a call can find: any of the keys, with any values.
Collections ==
  UNION {[S -> [qty : FieldValues.qty, name : FieldValues.name]] :
           S \in SUBSET UpsertKeys}

InitUpsert ==
  /\ monitorOptions = [fields |-> {}, includeUnchanged |-> FALSE,
                       events |-> EventNames, useAccountability |-> "true"]
  /\ mutationsInProgress = EmptyObject
  /\ db = [k \in Keys |-> InitialItem]
  /\ ops = [o \in OpIds |-> IdleOp]
  /\ now = 0
  /\ ticks = 0
  /\ NoHooks
  /\ NoLocks
  /\ NoDispatches
  /\ collection \in Collections
  /\ upserts = <<>>
  /\ configEndpoints = <<>>
  /\ requests = <<>>

NextUpsert ==
  \E data \in TypedData, pkFilter \in PkFilters : minimalUpsert(data, pkFilter)

\* Callers of minimalUpsert on a collection with any content.
SpecUpsert == InitUpsert /\ [][NextUpsert]_vars

\* ------------------------------------------------------------ endpointAuth

\* A URL is the sequence of its parts; "?" is the character itself.
OriginalUrls ==
  {<<"/a">>, <<"/b">>, <<"/a", "?", "x=1">>, <<"/a", "?", "x=1", "?", "y">>}

\* req.originalUrl.split('?').shift() (line 350): the part before the first
\* question mark.
endpointUrl(originalUrl) ==
  LET marks == {i \in 1..Len(originalUrl) : originalUrl[i] = "?"}
  IN IF marks = {} THEN originalUrl
     ELSE SubSeq(originalUrl, 1,
                 (CHOOSE i \in marks : \A j \in marks : i <= j) - 1)

\* The items config_endpoints can hold for the endpoint /a.
ConfigEndpointsItems ==
  [endpoint : {<<"/a">>}, status : {"enabled", "disabled"},
   allow_public_access : BOOLEAN,
   roles : SUBSET {"r1"}, users : SUBSET {"u1"}]

\* req.accountability: absent, of an unauthenticated request, or of a user
\* with a role.
Accountabilities ==
  {[defined |-> FALSE, role |-> Undefined, user |-> Undefined],
   [defined |-> TRUE, role |-> Null, user |-> Null]}
    \cup [defined : {TRUE}, role : {"r1", "r2"}, user : {"u1", "u2"}]

Requests == [originalUrl : OriginalUrls, accountability : Accountabilities]

\* endpointConfigService.readByQuery with the filter endpoint _eq
\* endpointUrl (lines 366-373).
ReadEndpointConfig(url) ==
  SelectSeq(configEndpoints, LAMBDA item : item.endpoint = url)

\* line 377, and a check that lets every status pass.
IsEnabledAlways(item) == TRUE

IsEnabled(item) == item.status = "enabled"

\* The try block of the middleware (lines 365-403): the calls of next it
\* makes, and whether it throws.
Thrown == [nexts |-> <<>>, thrown |-> TRUE]

AllGood == [nexts |-> <<"next()">>, thrown |-> FALSE]

TryBlock(req, readFails) ==
  IF readFails THEN Thrown
  ELSE LET found == ReadEndpointConfig(endpointUrl(req.originalUrl))
       IN IF found = <<>> THEN Thrown
          ELSE LET currentEndpointConfig == found[1]
               IN IF ~IsEnabled(currentEndpointConfig) THEN Thrown
                  ELSE IF currentEndpointConfig.allow_public_access
                  THEN AllGood
                  ELSE IF /\ req.accountability.role
                               \notin currentEndpointConfig.roles
                          /\ req.accountability.user
                               \notin currentEndpointConfig.users
                  THEN Thrown
                  ELSE AllGood

\* middlewareFunction(req, res, next) (lines 349-412), the whole call: the
\* try block, and in the catch block next(new ForbiddenError()).
middlewareFunction(req, readFails) ==
  LET tried == TryBlock(req, readFails)
      nexts == IF tried.thrown
               THEN Append(tried.nexts, "next(ForbiddenError)")
               ELSE tried.nexts
  IN /\ Len(requests) < MaxRequests
     /\ requests' = Append(requests,
          [req |-> req, readFails |-> readFails, nexts |-> nexts])
     /\ UNCHANGED <<dispatches, collection, upserts, configEndpoints, lockVars,
                    monitorVars, now, ticks, lastHookId, hooks, flights>>

InitAuth ==
  /\ monitorOptions = [fields |-> {}, includeUnchanged |-> FALSE,
                       events |-> EventNames, useAccountability |-> "true"]
  /\ mutationsInProgress = EmptyObject
  /\ db = [k \in Keys |-> InitialItem]
  /\ ops = [o \in OpIds |-> IdleOp]
  /\ now = 0
  /\ ticks = 0
  /\ NoHooks
  /\ NoLocks
  /\ NoDispatches
  /\ collection = EmptyObject
  /\ upserts = <<>>
  /\ configEndpoints \in UNION {[1..n -> ConfigEndpointsItems] : n \in 0..2}
  /\ requests = <<>>

NextAuth ==
  \E req \in Requests, readFails \in BOOLEAN : middlewareFunction(req, readFails)

\* Requests to custom endpoints behind the middleware, with any
\* configuration of the endpoint /a.
SpecAuth == InitAuth /\ [][NextAuth]_vars

\* ------------------------------------------- the awaits of the action hook

\* What the call of the handler gives the action hook: an exception thrown
\* before the handler returned, a promise that settles later, or a value
\* that is no promise.
HandlerOutcomes == {"throws", "promise", "value"}

\* An await that resumes whether or not the promise has settled.
AwaitedAlways(d) == TRUE

\* await handler(...) (lines 429, 460, 525): the hook resumes when what the
\* handler returned has settled; a value that is no promise has.
Awaited(d) == d.handler # "pending"

\* The action hook up to its first await or its return (lines 406-529).
\* A create calls the handler in a try block (lines 425-432).  An update or
\* delete returns at once when it finds no entry (lines 440-444); a delete
\* calls the handler with the captured items (lines 450-460); an update
\* throws out of line 488 when a reported key has no captured item, returns
\* without a call when no record was built (line 523) and calls the handler
\* otherwise (line 525).  A handler that throws is caught and logged.
ActionHook(event, matched, lacksKey, records, outcome) ==
  LET calls == \/ event = "create"
               \/ (event = "delete" /\ matched)
               \/ (event = "update" /\ matched /\ ~lacksKey /\ records > 0)
      throwsBefore == event = "update" /\ matched /\ lacksKey
      d == [event |-> event, lacksKey |-> matched /\ lacksKey,
            promised |-> calls /\ outcome = "promise",
            handler |-> CASE ~calls -> "none"
                          [] outcome = "throws" -> "failed"
                          [] outcome = "promise" -> "pending"
                          [] OTHER -> "completed",
            hook |-> CASE throwsBefore -> "threw"
                       [] ~calls -> "returned"
                       [] outcome = "throws" /\ event # "delete" -> "returned"
                       [] outcome = "throws" /\ lacksKey -> "threw"
                       [] outcome = "throws" -> "returned"
                       [] OTHER -> "awaiting",
            errors |-> IF calls /\ outcome = "throws" THEN 1 ELSE 0]
  IN /\ Len(dispatches) < MaxDispatches
     /\ event = "create" => matched /\ ~lacksKey
     /\ dispatches' = Append(dispatches, d)
     /\ UNCHANGED <<monitorVars, now, ticks, lastHookId, hooks, flights,
                    lockVars, utilVars>>

\* The promise the handler returned is fulfilled or rejected.
HandlerSettles(i, fulfilled) ==
  /\ i \in 1..Len(dispatches)
  /\ dispatches[i].handler = "pending"
  /\ dispatches' =
       [dispatches EXCEPT ![i].handler = IF fulfilled THEN "completed" ELSE "failed"]
  /\ UNCHANGED <<monitorVars, now, ticks, lastHookId, hooks, flights,
                 lockVars, utilVars>>

\* The action hook resumes after its await: a rejection is caught and logged
\* (lines 430-432, 461-463, 526-528); a create and an update return, a
\* delete runs lines 466-529, where line 488 throws when a reported key has
\* no captured item.
ActionHookResumes(i) ==
  /\ i \in 1..Len(dispatches)
  /\ dispatches[i].hook = "awaiting"
  /\ Awaited(dispatches[i])
  /\ dispatches' =
       [dispatches EXCEPT
          ![i].hook = IF dispatches[i].event = "delete" /\ dispatches[i].lacksKey
                      THEN "threw" ELSE "returned",
          ![i].errors = IF dispatches[i].handler = "failed" THEN 1 ELSE 0]
  /\ UNCHANGED <<monitorVars, now, ticks, lastHookId, hooks, flights,
                 lockVars, utilVars>>

InitAwait ==
  /\ monitorOptions = [fields |-> {"status"}, includeUnchanged |-> FALSE,
                       events |-> EventNames, useAccountability |-> "true"]
  /\ mutationsInProgress = EmptyObject
  /\ db = [k \in Keys |-> InitialItem]
  /\ ops = [o \in OpIds |-> IdleOp]
  /\ now = 0
  /\ ticks = 0
  /\ NoHooks
  /\ NoLocks
  /\ NoDispatches
  /\ NoUtils

NextAwait ==
  \/ \E event \in EventNames, matched \in BOOLEAN, lacksKey \in BOOLEAN,
        records \in 0..1, outcome \in HandlerOutcomes :
       ActionHook(event, matched, lacksKey, records, outcome)
  \/ \E i \in 1..MaxDispatches, fulfilled \in BOOLEAN : HandlerSettles(i, fulfilled)
  \/ \E i \in 1..MaxDispatches : ActionHookResumes(i)

\* Action hook invocations of any event, with handlers that throw, return a
\* value or return a promise that settles at any later time.
SpecAwait == InitAwait /\ [][NextAwait]_vars

\* ------------------------------------------------- what a dispatch was given

\* The mutations whose action hook has run.
Dispatched(event) == {o \in OpIds : ops[o].pc = "done" /\ ops[o].event = event}

\* The Change Records the handler received for key k in the dispatch of o,
\* over all its invocations.
RecordsFor(o, k) ==
  {<<c, i>> \in (1..Len(ops[o].result.calls)) \X (1..Cardinality(Keys)) :
     /\ i <= Len(ops[o].result.calls[c].mutations)
     /\ ops[o].result.calls[c].mutations[i].key = k}

\* The Change Record at a position RecordsFor names.
RecordAt(o, ci) == ops[o].result.calls[ci[1]].mutations[ci[2]]

\* The keys whose item the filter hook of o read.
CapturedKeys(o) == {ops[o].captured[i].key : i \in 1..Len(ops[o].captured)}

\* The value the filter hook of o read for field f of key k; undefined when
\* it read no such item or no such field.
CapturedValue(o, k, f) ==
  IF k \in CapturedKeys(o)
  THEN Get(ops[o].captured[CHOOSE i \in 1..Len(ops[o].captured) :
                             ops[o].captured[i].key = k].data, f)
  ELSE Undefined

\* The monitored fields the committed payload of o sets to a value other than
\* the one captured for key k.
ChangedFields(o, k) ==
  {f \in monitorOptions.fields \cap DOMAIN ops[o].payload :
     CapturedValue(o, k, f) # ops[o].payload[f]}

\* ------------------------------------------------------------------ claims

HasChangedSpec(r, field, from, to) ==
  /\ Get(r.previous, field) # Get(r.current, field)
  /\ (from # Undefined => Get(r.previous, field) = from)
  /\ (to # Undefined => Get(r.current, field) = to)

\* C2: for an update where a monitored field f of a key was captured with v1
\* and committed with another value v2, exactly one Change Record is
\* delivered for that key, with action update, previous[f] = v1,
\* current[f] = v2 and hasChanged(f, from, to) as specified.
C2_ChangedFieldDelivered ==
  \A o \in Dispatched("update") :
    \A k \in Range(ops[o].keys) :
      \A f \in ChangedFields(o, k) :
        CapturedValue(o, k, f) # Undefined =>
          /\ Cardinality(RecordsFor(o, k)) = 1
          /\ \A ci \in RecordsFor(o, k) :
               /\ RecordAt(o, ci).action = "update"
               /\ Get(RecordAt(o, ci).previous, f) = CapturedValue(o, k, f)
               /\ Get(RecordAt(o, ci).current, f) = ops[o].payload[f]
               /\ \A from \in ArgValues, to \in ArgValues :
                    hasChanged(RecordAt(o, ci), f, from, to)
                      <=> HasChangedSpec(RecordAt(o, ci), f, from, to)

\* C3: every key of a delete produces exactly one Change Record with action
\* delete, a non-empty previous, an empty current and a hasChanged that is
\* false for every argument.
C3_DeleteRecordPerKey ==
  \A o \in Dispatched("delete") :
    \A k \in Range(ops[o].keys) :
      /\ Cardinality(RecordsFor(o, k)) = 1
      /\ \A ci \in RecordsFor(o, k) :
           /\ RecordAt(o, ci).action = "delete"
           /\ RecordAt(o, ci).previous # EmptyObject
           /\ RecordAt(o, ci).current = EmptyObject
           /\ \A f \in Fields, from \in ArgValues, to \in ArgValues :
                ~hasChanged(RecordAt(o, ci), f, from, to)

\* The fields a registration monitors on a payload: the registered fields, or
\* every field of the payload when the registered set is empty.
MonitoredOn(payload) ==
  IF monitorOptions.fields = {} THEN DOMAIN payload ELSE monitorOptions.fields

\* C4: the Change Record of a create has an empty previous, and its current
\* holds exactly the monitored fields: the payload's value where the payload
\* sets the field, null where it does not; other payload fields are left out.
C4_CreateRecord ==
  \A o \in Dispatched("create") :
    /\ Len(ops[o].result.calls) = 1
    /\ Len(ops[o].result.calls[1].mutations) = 1
    /\ LET r == ops[o].result.calls[1].mutations[1]
       IN /\ r.action = "create"
          /\ r.key = ops[o].keys[1]
          /\ r.previous = EmptyObject
          /\ DOMAIN r.current = MonitoredOn(ops[o].payload)
          /\ \A f \in MonitoredOn(ops[o].payload) :
               r.current[f] = IF f \in DOMAIN ops[o].payload
                              THEN ops[o].payload[f] ELSE Null

\* The keys for which the dispatch of o has a Change Record to deliver: the
\* key of a create, the captured keys of a delete, the captured keys of an
\* update with a changed monitored field.
KeysToReport(o) ==
  CASE ops[o].event = "create" -> Range(ops[o].keys)
    [] ops[o].event = "delete" -> Range(ops[o].keys) \cap CapturedKeys(o)
    [] OTHER -> {k \in Range(ops[o].keys) \cap CapturedKeys(o) :
                   ChangedFields(o, k) # {}}

\* meta.payload as the action hook has it: the payload of a create or an
\* update, the keys of a delete.
MetaPayload(o) ==
  IF ops[o].event = "delete" THEN SortKeys(ops[o].result.reported)
  ELSE ops[o].payload

\* C5: an operation that yields at least one Change Record invokes the
\* handler exactly once, with all its Change Records in one array and with
\* the event and the payload; no operation invokes it twice.
C5_OneCallPerOperation ==
  \A o \in OpIds :
    ops[o].pc = "done" =>
      /\ Len(ops[o].result.calls) <= 1
      /\ KeysToReport(o) # {} =>
           /\ Len(ops[o].result.calls) = 1
           /\ ops[o].result.calls[1].event = ops[o].event
           /\ ops[o].result.calls[1].payload = MetaPayload(o)
           /\ \A k \in KeysToReport(o) : Cardinality(RecordsFor(o, k)) = 1
           /\ Len(ops[o].result.calls[1].mutations) = Cardinality(KeysToReport(o))

\* C6: a dispatch that results in no Change Record does not invoke the
\* handler: every invocation carries at least one record.
C6_NoRecordNoCall ==
  \A o \in OpIds :
    ops[o].pc = "done" =>
      \A c \in 1..Len(ops[o].result.calls) :
        Len(ops[o].result.calls[c].mutations) > 0

\* The orderings of the keys of a mutation.
Orderings(keys) == {s \in KeySeqs : Range(s) = Range(keys)}

\* C7: fingerprints do not depend on the order of the keys: while the entry
\* of a capture waits in the store, a dispatch of the same event finds it
\* under every ordering of the captured keys, and the dispatch that ran found
\* and consumed the entry of its own capture.
C7_OrderIndependent ==
  \A o \in OpIds :
    /\ (ops[o].pc \in {"captured", "committed"}
        /\ ops[o].event \in {"update", "delete"}) =>
         \A reported \in Orderings(ops[o].keys) :
           /\ createFingerprint(ops[o].event, reported)
                \in DOMAIN mutationsInProgress
           /\ mutationsInProgress[createFingerprint(ops[o].event, reported)].owner = o
    /\ (ops[o].pc = "done" /\ ops[o].event \in {"update", "delete"}) =>
         ops[o].result.matched /\ ops[o].result.owner = o

\* A capture was given the keys as [9, 10] and its dispatch as [10, 9], and
\* the dispatch found the entry.
C7_Witness ==
  \E o \in OpIds :
    /\ ops[o].pc = "done"
    /\ ops[o].event \in {"update", "delete"}
    /\ ops[o].keys = <<9, 10>>
    /\ ops[o].result.reported = <<10, 9>>
    /\ ops[o].result.matched
    /\ ops[o].result.owner = o

\* The step in which the filter hook of o puts its entry and sweeps.
SweepStep(o) ==
  /\ ops[o].pc = "begun"
  /\ ops'[o].pc = "captured"
  /\ ops[o].event \in {"update", "delete"}

\* The step in which the action hook of o finds and consumes an entry.
ConsumeStep(o) ==
  /\ ops[o].pc = "committed"
  /\ ops'[o].pc = "done"
  /\ ops'[o].result.matched

\* The number of warnings the sweep of o logged for fingerprint fp.
SweepWarnings(o, fp) ==
  Cardinality({i \in 1..Len(ops'[o].removed) : ops'[o].removed[i] = fp})

\* C8 as stated: an entry that no dispatch consumed within five minutes of
\* its capture is never delivered, so every dispatch that finds an entry and
\* invokes the handler finds one that is at most five minutes old.
C8_StaleNeverDelivered ==
  \A o \in OpIds :
    (ops[o].pc = "done" /\ ops[o].result.matched
     /\ ops[o].result.age > FIVE_MINUTES)
      => ops[o].result.calls = <<>>

\* C8, amended: expiry happens in the sweep only.  An entry that is still in
\* the store when the sweep of a later update or delete capture runs more
\* than five minutes after the entry's timestamp is removed by that sweep
\* with exactly one warning, a younger entry is kept without a warning, and
\* no dispatch consumes an entry a sweep removed.
C8_SweepReclaims ==
  [][\A o \in OpIds :
       /\ SweepStep(o) =>
            \A fp \in (DOMAIN mutationsInProgress)
                        \ {createFingerprint(ops[o].event, ops[o].keys)} :
              IF now - mutationsInProgress[fp].timestamp > FIVE_MINUTES
              THEN /\ fp \notin DOMAIN mutationsInProgress'
                   /\ SweepWarnings(o, fp) = 1
                   /\ ops'[mutationsInProgress[fp].owner].swept
              ELSE /\ fp \in DOMAIN mutationsInProgress'
                   /\ mutationsInProgress'[fp] = mutationsInProgress[fp]
                   /\ SweepWarnings(o, fp) = 0
       /\ ConsumeStep(o) => ~ops[ops'[o].result.owner].swept
       /\ (ops[o].swept /\ ops[o].pc = "committed" /\ ops'[o].pc = "done") =>
            \/ ops'[o].result.calls = <<>>
            \/ ops'[o].result.owner # o
    ]_vars

\* A sweep removed the entry of a mutation that was still under way, with one
\* warning, and the dispatch of that mutation then found no entry and invoked
\* no handler.
C8_Witness ==
  \E p \in OpIds, q \in OpIds :
    /\ ops[p].swept
    /\ Len(ops[q].removed) = 1
    /\ ops[p].pc = "done"
    /\ ~ops[p].result.matched
    /\ ops[p].result.calls = <<>>

\* C9: the Change Records of an update hold only fields of that update (the
\* fields its own capture read and the fields of its own payload), and their
\* previous values are the values the store held when that update was
\* captured, which for the second of two sequential updates are the values
\* the first one committed.
C9_IndependentRecords ==
  \A o \in Dispatched("update") :
    \A k \in Range(ops[o].keys) :
      \A ci \in RecordsFor(o, k) :
        LET r == RecordAt(o, ci)
        IN /\ DOMAIN r.previous \subseteq ops[o].fields
           /\ DOMAIN r.current \subseteq ops[o].fields \cup DOMAIN ops[o].payload
           /\ ~monitorOptions.includeUnchanged =>
                (DOMAIN r.previous) \cup (DOMAIN r.current)
                  \subseteq DOMAIN ops[o].payload
           /\ k \in DOMAIN ops[o].before
           /\ \A f \in DOMAIN r.previous : r.previous[f] = ops[o].before[k][f]
           /\ \A f \in (DOMAIN r.current) \cap ops[o].fields :
                Get(r.previous, f) = ops[o].before[k][f]
           /\ \A f \in (DOMAIN r.current) \cap DOMAIN ops[o].payload :
                r.current[f] = ops[o].payload[f]

\* A first update of key 9 was delivered with one set of fields, and a second
\* update of key 9 was delivered with another set, its previous holding a
\* value that the first update wrote.
C9_Witness ==
  /\ ops[1].pc = "archived"
  /\ ops[1].event = "update"
  /\ 9 \in Range(ops[1].keys)
  /\ ops[1].fields # {}
  /\ 2 \in Dispatched("update")
  /\ \E ci \in RecordsFor(2, 9) :
       /\ DOMAIN RecordAt(2, ci).current # ops[1].fields
       /\ \E f \in (DOMAIN RecordAt(2, ci).previous) \cap ops[1].fields :
            RecordAt(2, ci).previous[f] # InitialItem[f]

\* C10: with includeUnchanged, every Change Record of an update reports all
\* monitored fields in previous and in current, the fields that did not
\* change with the same value on both sides.
C10_IncludeUnchanged ==
  monitorOptions.includeUnchanged =>
    \A o \in Dispatched("update") :
      \A k \in Range(ops[o].keys) :
        \A ci \in RecordsFor(o, k) :
          /\ DOMAIN RecordAt(o, ci).previous = monitorOptions.fields
          /\ DOMAIN RecordAt(o, ci).current = monitorOptions.fields
          /\ \A f \in monitorOptions.fields \ ChangedFields(o, k) :
               /\ RecordAt(o, ci).previous[f] = RecordAt(o, ci).current[f]
               /\ RecordAt(o, ci).previous[f] = ops[o].before[k][f]
          /\ \A f \in ChangedFields(o, k) :
               /\ RecordAt(o, ci).previous[f] = ops[o].before[k][f]
               /\ RecordAt(o, ci).current[f] = ops[o].payload[f]

\* With includeUnchanged and two monitored fields, an update that changed one
\* of them was delivered.
C10_Witness ==
  /\ monitorOptions.includeUnchanged
  /\ monitorOptions.fields = Fields
  /\ \E o \in Dispatched("update") :
       \E k \in Range(ops[o].keys) :
         /\ Cardinality(ChangedFields(o, k)) = 1
         /\ RecordsFor(o, k) # {}

\* C11: under a registration with an empty field set, an update that changes
\* the value of a payload field of a key delivers a Change Record for that
\* key with the field in previous and in current, and the handler is invoked.
C11_EmptyFieldSetUpdate ==
  monitorOptions.fields = {} =>
    \A o \in Dispatched("update") :
      \A k \in Range(ops[o].keys) \cap DOMAIN ops[o].before :
        \A f \in DOMAIN ops[o].payload :
          ops[o].before[k][f] # ops[o].payload[f] =>
            /\ ops[o].result.calls # <<>>
            /\ \E ci \in RecordsFor(o, k) :
                 /\ f \in DOMAIN RecordAt(o, ci).previous
                 /\ f \in DOMAIN RecordAt(o, ci).current

\* C12: under a registration with an empty field set, the current of a
\* create's Change Record holds every field of the payload with the payload's
\* value.
C12_EmptyFieldSetCreate ==
  monitorOptions.fields = {} =>
    \A o \in Dispatched("create") :
      \A c \in 1..Len(ops[o].result.calls) :
        \A i \in 1..Len(ops[o].result.calls[c].mutations) :
          \A f \in DOMAIN ops[o].payload :
            Get(ops[o].result.calls[c].mutations[i].current, f) = ops[o].payload[f]

\* The step in which the action hook of an update or delete of o runs.
DispatchStep(o) ==
  /\ ops[o].pc = "committed"
  /\ ops'[o].pc = "done"
  /\ ops[o].event \in {"update", "delete"}

\* C13: an update or delete dispatch that finds no entry under its
\* fingerprint logs one warning, invokes no handler, returns normally and
\* leaves the store as it was.
C13_UnmatchedDispatch ==
  [][\A o \in OpIds :
       (DispatchStep(o)
        /\ createFingerprint(ops[o].event, ops'[o].result.reported)
             \notin DOMAIN mutationsInProgress) =>
         /\ mutationsInProgress' = mutationsInProgress
         /\ ops'[o].result.calls = <<>>
         /\ ~ops'[o].result.threw
         /\ Len(ops'[o].result.warnings) = 1
         /\ ops'[o].result.warnings[1].kind = "unmatched"
    ]_vars

\* A dispatch found no entry while the store held the entry of another
\* mutation, and warned.
C13_Witness ==
  \E o \in OpIds :
    /\ ops[o].pc = "done"
    /\ ops[o].event \in {"update", "delete"}
    /\ ~ops[o].result.matched
    /\ Len(ops[o].result.warnings) = 1
    /\ \E fp \in DOMAIN mutationsInProgress :
         mutationsInProgress[fp].owner # o

\* C14: when the read of an update or delete capture fails, the filter hook
\* throws to the host and the store is as it was before the capture: no
\* entry inserted, overwritten or removed, and none that belongs to the
\* failed capture.
C14_ReadFailure ==
  [][\A o \in OpIds :
       (ops[o].pc = "begun" /\ ops'[o].pc = "failed") =>
         /\ mutationsInProgress' = mutationsInProgress
         /\ db' = db
         /\ \A fp \in DOMAIN mutationsInProgress' :
              mutationsInProgress'[fp].owner # o
    ]_vars

\* The read of a capture failed while the store held the entry an earlier
\* capture had left under the same fingerprint.
C14_Witness ==
  \E o \in OpIds :
    /\ ops[o].pc = "failed"
    /\ createFingerprint(ops[o].event, ops[o].keys) \in DOMAIN mutationsInProgress

\* The dispatches in which an invocation of the handler raised.
HandlerRaised == {o \in OpIds : ops[o].pc = "done" /\ Raised(ops[o].result.calls) > 0}

\* C15: when the handler raises in a create, update or delete dispatch, the
\* failure is caught and logged as an error, the dispatch returns normally,
\* and the entry the dispatch consumed is not back in the store.
C15_HandlerFailureCaught ==
  \A o \in HandlerRaised :
    /\ ops[o].result.errors = Raised(ops[o].result.calls)
    /\ ~ops[o].result.threw
    /\ \A fp \in DOMAIN mutationsInProgress : mutationsInProgress[fp].owner # o

\* C16: every create, update and delete dispatch returns normally, whatever
\* items the pre-commit read returned.
C16_DispatchNeverThrows ==
  \A o \in OpIds : ops[o].pc = "done" => ~ops[o].result.threw

\* C17: registrations get unique, strictly increasing ids and stores of
\* their own: every entry of a registration's store was put by that
\* registration under its own id, a hook of one registration (capture with
\* its sweep, or dispatch) leaves the store of every other registration as it
\* was, and a dispatch consumes only an entry of its own registration.
C17_RegistrationsIsolated ==
  [][/\ \A i \in 1..Len(hooks'), j \in 1..Len(hooks') :
          i < j => hooks'[i].hookId < hooks'[j].hookId
     /\ \A h \in 1..Len(hooks') :
          \A fp \in DOMAIN hooks'[h].mutationsInProgress :
            /\ fp[1] = hooks'[h].hookId
            /\ hooks'[h].mutationsInProgress[fp].owner[1] = h
     /\ \A h \in 1..Len(hooks), f \in FlightIds :
          flights'[f].at[h] # flights[f].at[h] =>
            /\ \A g \in 1..Len(hooks) : g # h => hooks'[g] = hooks[g]
            /\ flights'[f].consumed[h][1] \in {0, h}
    ]_vars

\* Two registrations captured the same mutation and each dispatch consumed
\* the entry of its own registration's capture.
C17_Witness ==
  \E f \in FlightIds :
    /\ flights[f].at[1] = "done"
    /\ flights[f].at[2] = "done"
    /\ flights[f].consumed[1] = <<1, f>>
    /\ flights[f].consumed[2] = <<2, f>>

\* C18: for a mutation of a kind that the registration's events do not list
\* (all three kinds when events is left out), no step of the mutation
\* changes the store, nothing is captured and the handler is not invoked.
C18_UnlistedEventIgnored ==
  [][\A o \in OpIds :
       (ops'[o].event \in EventNames \ monitorOptions.events) =>
         /\ ops'[o] # ops[o] => mutationsInProgress' = mutationsInProgress
         /\ ops'[o].captured = <<>>
         /\ ops'[o].accountability = "none"
         /\ ops'[o].result = NoResult
         /\ \A fp \in DOMAIN mutationsInProgress' :
              mutationsInProgress'[fp].owner # o
    ]_vars

\* An update was committed and dispatched under a registration that lists
\* only create and delete, while an entry of an earlier delete waited.
C18_Witness ==
  /\ monitorOptions.events = {"create", "delete"}
  /\ \E o \in OpIds : ops[o].pc = "done" /\ ops[o].event = "update"
  /\ DOMAIN mutationsInProgress # {}

\* C19: unless useAccountability was passed as false, the snapshot of every
\* update and delete capture is read with the acting user's accountability.
C19_AccountabilityDefault ==
  monitorOptions.useAccountability # "false" =>
    \A o \in OpIds :
      ops[o].accountability \in {"none", "user"}

\* The callers that hold a lock of the target: acquireLock returned the lock
\* to them, or release granted their request, and they have not released.
Holders(target) ==
  {l \in Lockers : lockers[l].pc = "holding" /\ lockers[l].target = target}

\* C20: a holder of an exclusive lock of a target is the only holder of a
\* lock of that target; holders coexist only when all of them are shared.
C20_MutualExclusion ==
  \A target \in Targets :
    \A l \in Holders(target) :
      ~lockers[l].shared => Holders(target) = {l}

\* The fields a call of minimalUpsert supplies: those of data with a value.
Supplied(call) == {f \in DOMAIN call.data : call.data[f] # Undefined}

\* Every supplied field of the call equals the value the item had.
NoEffectiveChange(call, key) ==
  \A f \in Supplied(call) : StoredItem(call.before, key)[f] = call.data[f]

\* C21: a call of minimalUpsert whose lookup matches no item makes exactly
\* one createOne and returns 'create' (unless the service rejects the
\* write); a call that matches one item whose stored values equal every
\* supplied field writes nothing and returns 'none'; a call that matches one
\* item with a supplied field that differs makes exactly one updateOne on
\* the matched key and returns 'update'.
C21_MinimalUpsert ==
  \A i \in 1..Len(upserts) :
    LET call == upserts[i]
    IN /\ call.existing = {} =>
            /\ Len(call.writes) = 1
            /\ call.writes[1].op = "createOne"
            /\ call.writes[1].key \notin DOMAIN call.before =>
                 call.action = "create"
       /\ Cardinality(call.existing) = 1 =>
            LET key == CHOOSE k \in call.existing : TRUE
            IN IF NoEffectiveChange(call, key)
               THEN call.action = "none" /\ call.writes = <<>>
               ELSE /\ call.action = "update"
                    /\ Len(call.writes) = 1
                    /\ call.writes[1].op = "updateOne"
                    /\ call.writes[1].key = key

\* The items of config_endpoints that let the request through: configured
\* for the path of the request, enabled, and public or listing the role or
\* the user of the requester.
Admitting(r) ==
  {i \in 1..Len(configEndpoints) :
     LET item == configEndpoints[i]
     IN /\ item.endpoint = endpointUrl(r.req.originalUrl)
        /\ item.status = "enabled"
        /\ \/ item.allow_public_access
           \/ r.req.accountability.role \in item.roles
           \/ r.req.accountability.user \in item.users}

\* C22: the middleware calls next exactly once per request, and without an
\* error only if the read of the configuration succeeded and an item of
\* config_endpoints admits the request; otherwise with the Forbidden error.
C22_EndpointAuth ==
  \A i \in 1..Len(requests) :
    LET r == requests[i]
    IN /\ Len(r.nexts) = 1
       /\ r.nexts[1] = "next()" => ~r.readFails /\ Admitting(r) # {}
       /\ r.readFails \/ Admitting(r) = {} => r.nexts[1] = "next(ForbiddenError)"

\* On an enabled endpoint that is not public, a request of a listed role
\* passed and an unauthenticated request was refused.
C22_Witness ==
  /\ Len(configEndpoints) = 1
  /\ configEndpoints[1].status = "enabled"
  /\ ~configEndpoints[1].allow_public_access
  /\ \E i \in 1..Len(requests) :
       /\ requests[i].nexts = <<"next()">>
       /\ requests[i].req.accountability.role \in configEndpoints[1].roles
  /\ \E i \in 1..Len(requests) :
       /\ requests[i].nexts = <<"next(ForbiddenError)">>
       /\ ~requests[i].readFails
       /\ requests[i].req.accountability.role = Null
       /\ endpointUrl(requests[i].req.originalUrl) = <<"/a">>

\* Two updates or two deletes of the same keys: their captures and their
\* dispatches compute the same fingerprint.
SameFingerprint(p, q) ==
  /\ p # q
  /\ ops[p].event = ops[q].event
  /\ ops[p].event \in {"update", "delete"}
  /\ Range(ops[p].keys) = Range(ops[q].keys)

\* Two mutations with the same fingerprint whose captures both completed
\* before either dispatch, seen when both dispatches are over: one dispatch
\* found the entry and the other did not, and no sweep took part.
Collided(p, q) ==
  /\ SameFingerprint(p, q)
  /\ ops[p].pc = "done"
  /\ ops[q].pc = "done"
  /\ ~ops[p].swept
  /\ ~ops[q].swept
  /\ ops[p].result.matched
  /\ ~ops[q].result.matched

Consumers == {o \in OpIds : ops[o].pc = "done" /\ ops[o].result.matched}

\* C24: the lookup and the removal of a dispatch are one step.  A dispatch
\* that runs while the store holds an entry under its fingerprint obtains
\* that entry and leaves none under the fingerprint; a dispatch that runs
\* while there is none takes the unmatched path and leaves the store as it
\* is.  An entry, which is the entry of the capture of one mutation, is thus
\* consumed by at most one dispatch and is no longer in the store once it
\* was consumed: of two dispatches that compete for one entry exactly one
\* obtains it.
C24_AtomicTake ==
  [][/\ \A o \in OpIds :
          DispatchStep(o) =>
            LET fp == createFingerprint(ops[o].event, ops[o].keys)
            IN IF fp \in DOMAIN mutationsInProgress
               THEN /\ ops'[o].result.matched
                    /\ ops'[o].result.owner = mutationsInProgress[fp].owner
                    /\ mutationsInProgress' =
                         [k \in (DOMAIN mutationsInProgress) \ {fp} |->
                            mutationsInProgress[k]]
               ELSE /\ ~ops'[o].result.matched
                    /\ ops'[o].result.calls = <<>>
                    /\ mutationsInProgress' = mutationsInProgress
     /\ (\A p \in Consumers, q \in Consumers :
           p # q => ops[p].result.owner # ops[q].result.owner)'
     /\ (\A o \in Consumers, fp \in DOMAIN mutationsInProgress :
           mutationsInProgress[fp].owner # ops[o].result.owner)'
    ]_vars

\* Two deletes of the same key were captured one after the other and then
\* dispatched: one dispatch obtained the single entry, the other found none.
C24_Witness ==
  \E p \in OpIds, q \in OpIds :
    /\ Collided(p, q)
    /\ ops[p].event = "delete"
    /\ Consumers = {p}
    /\ DOMAIN mutationsInProgress = {}

\* No other mutation of the behaviour has the fingerprint of o.
OwnFingerprint(o) == \A q \in OpIds : ~SameFingerprint(o, q)

\* Every Change Record the dispatch of o delivered takes its previous values
\* from the items the capture of o read.
PreviousFromOwnSnapshot(o) ==
  \A k \in Range(ops[o].keys) :
    \A ci \in RecordsFor(o, k) :
      \A f \in DOMAIN RecordAt(o, ci).previous :
        RecordAt(o, ci).previous[f] = CapturedValue(o, k, f)

\* C25: for a mutation whose fingerprint no other mutation has, however the
\* hooks of the mutations interleave: between its capture and its dispatch
\* the store holds the entry of its capture unless a sweep removed it, a
\* sweep removes it only when it is older than five minutes, and a dispatch
\* that runs at most five minutes after the capture consumes that entry, so
\* that the previous values of its Change Records are those of its own
\* snapshot.
C25_OwnEntryConsumed ==
  [][\A o \in OpIds :
       LET fp == createFingerprint(ops[o].event, ops[o].keys)
       IN /\ (OwnFingerprint(o)' /\ ops'[o].pc \in {"captured", "committed"}
              /\ ops'[o].event \in {"update", "delete"}) =>
               \/ ops'[o].swept
               \/ /\ fp \in DOMAIN mutationsInProgress'
                  /\ mutationsInProgress'[fp].owner = o
                  /\ mutationsInProgress'[fp].current = ops'[o].captured
          /\ (OwnFingerprint(o) /\ ~ops[o].swept /\ ops'[o].swept) =>
               /\ fp \in DOMAIN mutationsInProgress
               /\ now - mutationsInProgress[fp].timestamp > FIVE_MINUTES
          /\ (DispatchStep(o) /\ OwnFingerprint(o)
              /\ fp \in DOMAIN mutationsInProgress
              /\ now - mutationsInProgress[fp].timestamp <= FIVE_MINUTES) =>
               /\ ops'[o].result.matched
               /\ ops'[o].result.owner = o
               /\ fp \notin DOMAIN mutationsInProgress'
               /\ PreviousFromOwnSnapshot(o)'
    ]_vars

\* An update of key 9 and an update of key 10 were both captured before
\* either was dispatched, time passed, and each dispatch delivered a record
\* with the previous value of its own snapshot.
C25_Witness ==
  /\ \A o \in OpIds :
       /\ ops[o].pc = "done"
       /\ ops[o].event = "update"
       /\ ops[o].result.matched
       /\ ops[o].result.owner = o
       /\ ops[o].result.age > 0
       /\ Len(ops[o].result.calls) = 1
       /\ \E k \in Range(ops[o].keys) :
            \E ci \in RecordsFor(o, k) : DOMAIN RecordAt(o, ci).previous # {}
  /\ \A p \in OpIds, q \in OpIds :
       p # q => Range(ops[p].keys) # Range(ops[q].keys)

\* The entries, other than the one under the fingerprint of o, that are
\* older than five minutes when the capture of o runs.
StaleFor(o) ==
  {fp \in (DOMAIN mutationsInProgress)
            \ {createFingerprint(ops[o].event, ops[o].keys)} :
     now - mutationsInProgress[fp].timestamp > FIVE_MINUTES}

\* C26: the sweep of a completed update or delete capture removes exactly
\* the entries older than five minutes, of either event kind, with one
\* warning for each; the entry the capture just put and every entry that is
\* at most five minutes old stay as they are.
C26_SweepExact ==
  [][\A o \in OpIds :
       SweepStep(o) =>
         LET own == createFingerprint(ops[o].event, ops[o].keys)
         IN /\ DOMAIN mutationsInProgress' =
                 ((DOMAIN mutationsInProgress) \cup {own}) \ StaleFor(o)
            /\ \A fp \in (DOMAIN mutationsInProgress') \ {own} :
                 mutationsInProgress'[fp] = mutationsInProgress[fp]
            /\ mutationsInProgress'[own].owner = o
            /\ mutationsInProgress'[own].timestamp = now
            /\ Range(ops'[o].removed) = StaleFor(o)
            /\ Len(ops'[o].removed) = Cardinality(StaleFor(o))
    ]_vars

\* The capture of an update removed the entry of a delete that was older
\* than five minutes, with one warning, and kept its own.
C26_Witness ==
  \E p \in OpIds, q \in OpIds :
    /\ ops[p].event = "delete"
    /\ ops[p].swept
    /\ ops[q].event = "update"
    /\ ops[q].pc = "captured"
    /\ Len(ops[q].removed) = 1
    /\ DOMAIN mutationsInProgress =
         {createFingerprint(ops[q].event, ops[q].keys)}

\* A step in which the filter hook of an update or delete of o runs, whether
\* it completes or its read fails.
CaptureStep(o) ==
  /\ ops[o].pc = "begun"
  /\ ops'[o].pc \in {"captured", "failed"}
  /\ ops[o].event \in {"update", "delete"}

\* The entries that are older than five minutes when a capture starts.
StaleAtStart ==
  {fp \in DOMAIN mutationsInProgress :
     now - mutationsInProgress[fp].timestamp > FIVE_MINUTES}

\* C27 as stated: the sweep runs at the start of every update or delete
\* capture, so every entry that is stale when the capture is invoked is
\* reclaimed with a warning, however the rest of the capture proceeds.
C27_SweepAtStart ==
  [][\A o \in OpIds :
       CaptureStep(o) =>
         \A fp \in StaleAtStart :
           /\ \/ fp \notin DOMAIN mutationsInProgress'
              \/ mutationsInProgress'[fp] # mutationsInProgress[fp]
           /\ fp \in Range(ops'[o].removed)
    ]_vars

\* C27, amended: the sweep runs at the end of every update or delete
\* capture that completes, after the read and after the put.  A capture whose
\* read fails neither sweeps nor warns and leaves every stale entry in the
\* store; a completed capture reclaims, with a warning each, the stale
\* entries under other fingerprints, and replaces a stale entry under its own
\* fingerprint by its put, without a warning.
C27_SweepAtEnd ==
  [][\A o \in OpIds :
       CaptureStep(o) =>
         LET own == createFingerprint(ops[o].event, ops[o].keys)
         IN IF ops'[o].pc = "failed"
            THEN /\ mutationsInProgress' = mutationsInProgress
                 /\ ops'[o].removed = <<>>
            ELSE /\ \A fp \in StaleAtStart \ {own} :
                      /\ fp \notin DOMAIN mutationsInProgress'
                      /\ fp \in Range(ops'[o].removed)
                 /\ own \in DOMAIN mutationsInProgress'
                 /\ mutationsInProgress'[own].timestamp = now
                 /\ mutationsInProgress'[own].current = ops'[o].captured
                 /\ own \notin Range(ops'[o].removed)
    ]_vars

\* The read of a capture failed while the store held an entry older than
\* five minutes, and the entry is still there.
C27_Witness ==
  \E o \in OpIds :
    /\ ops[o].pc = "failed"
    /\ ops[o].removed = <<>>
    /\ StaleAtStart # {}

\* The fingerprints of the updates and deletes of a behaviour without end.
LiveFingerprints ==
  {createFingerprint(event, keys) :
     event \in {"update", "delete"}, keys \in TimedKeySeqs}

\* The store holds, under fp, the entry that owner g tells from the one
\* before it and the one after it.
Holds(fp, g) ==
  fp \in DOMAIN mutationsInProgress /\ mutationsInProgress[fp].owner = g

\* C28 as stated: every entry is eventually removed from the store, and it
\* leaves the store in one of two ways, consumed by a dispatch or reclaimed
\* by a sweep, both of which leave no entry under its fingerprint.
C28_ConsumedOrSwept ==
  /\ \A fp \in LiveFingerprints, g \in {0, 1} : Holds(fp, g) ~> ~Holds(fp, g)
  /\ [][\A fp \in LiveFingerprints, g \in {0, 1} :
          (Holds(fp, g) /\ ~Holds(fp, g)') =>
            fp \notin DOMAIN mutationsInProgress'
       ]_vars

\* C28, amended: while captures keep completing and time keeps passing,
\* every entry eventually leaves the store, whether or not its dispatch
\* arrives: it is consumed by a dispatch, reclaimed by a sweep, or replaced
\* by the entry of a later capture with the same fingerprint.
C28_EventuallyRemoved ==
  \A fp \in LiveFingerprints, g \in {0, 1} : Holds(fp, g) ~> ~Holds(fp, g)

\* The store holds an abandoned entry that is older than five minutes, which
\* the next capture to complete will reclaim, next to a young one.
C28_Witness ==
  \E fp \in DOMAIN mutationsInProgress, other \in DOMAIN mutationsInProgress :
    /\ now - mutationsInProgress[fp].timestamp > FIVE_MINUTES
    /\ now - mutationsInProgress[other].timestamp = 1

\* The field set an update capture is to take: the full monitored field list
\* under includeUnchanged, else the monitored fields the payload holds. An
\* empty registered set stands for every field of the payload.
UpdateCaptureFields(payload) ==
  IF monitorOptions.includeUnchanged
  THEN MonitoredOn(payload)
  ELSE MonitoredOn(payload) \cap DOMAIN payload

\* The entry the capture of o left under the fingerprint of its event and its
\* metadata keys holds the given fields and, for each of the keys the store
\* holds, the stored values of exactly those fields.
CapturedExactly(o, fields) ==
  LET fp == createFingerprint(ops[o].event, ops[o].keys)
  IN /\ fp \in DOMAIN mutationsInProgress'
     /\ LET entry == mutationsInProgress'[fp]
        IN /\ entry.owner = o
           /\ entry.event = ops[o].event
           /\ Range(entry.keys) = Range(ops[o].keys)
           /\ entry.fields = fields
           /\ {entry.current[i].key : i \in 1..Len(entry.current)} =
                Range(ops[o].keys) \cap DOMAIN db
           /\ \A i \in 1..Len(entry.current) :
                entry.current[i].data =
                  [f \in fields |-> db[entry.current[i].key][f]]

\* C29: an update capture takes the full monitored field list under
\* includeUnchanged and otherwise the monitored fields present in the payload,
\* and stores, under fingerprint(registrationId, event, keys), the current
\* stored values of exactly those fields for each affected key of the
\* operation metadata.
C29_UpdateCapture ==
  [][\A o \in OpIds :
       SweepStep(o) /\ ops[o].event = "update" =>
         CapturedExactly(o, UpdateCaptureFields(ops[o].payload))]_vars

Differing(o, k) ==
  {f \in MonitoredOn(ops[o].payload) \cap DOMAIN ops[o].payload :
     CapturedValue(o, k, f) # ops[o].payload[f]}

\* C31: in default mode, a key of an update whose snapshot differs from the
\* committed payload in no monitored field gets no Change Record, whatever
\* the other keys of the operation get; a key with a difference gets one
\* record whose previous and current both hold exactly the monitored fields
\* whose values differ.
C31_ShakeOutPerKey ==
  ~monitorOptions.includeUnchanged =>
    \A o \in Dispatched("update") :
      ops[o].result.matched =>
        \A k \in Range(ops[o].keys) \cap CapturedKeys(o) :
          IF Differing(o, k) = {}
          THEN RecordsFor(o, k) = {}
          ELSE /\ Cardinality(RecordsFor(o, k)) = 1
               /\ \A ci \in RecordsFor(o, k) :
                    /\ DOMAIN RecordAt(o, ci).previous = Differing(o, k)
                    /\ DOMAIN RecordAt(o, ci).current = Differing(o, k)

\* The monitored fields the filter hook of o captured from a payload that
\* held them and that the committed payload no longer holds.
DroppedFields(o) ==
  (ops[o].fields \cap DOMAIN ops[o].sent) \ DOMAIN ops[o].payload

\* The records the handler received in the dispatch of o hold none of the
\* dropped fields, and there is a record only for a key with a difference in
\* a monitored field of the committed payload.
DroppedLeftOut(o) ==
  \A k \in Range(ops[o].keys) :
    /\ \A ci \in RecordsFor(o, k) :
         /\ DOMAIN RecordAt(o, ci).previous \cap DroppedFields(o) = {}
         /\ DOMAIN RecordAt(o, ci).current \cap DroppedFields(o) = {}
    /\ RecordsFor(o, k) # {} => Differing(o, k) # {}

\* C32 as stated: a monitored field that was captured and that the committed
\* payload no longer holds is in neither previous nor current of any Change
\* Record, and causes no record and no handler invocation by itself,
\* whatever the options.
C32_DroppedFieldsRemoved ==
  \A o \in Dispatched("update") : DroppedLeftOut(o)

\* C32: in default mode, a monitored field that was captured and that the
\* committed payload no longer holds is in neither previous nor current of
\* any Change Record, and causes no record and no handler invocation by
\* itself.
C32_DroppedFieldsRemovedByDefault ==
  ~monitorOptions.includeUnchanged =>
    \A o \in Dispatched("update") : DroppedLeftOut(o)

\* In default mode, an update of two monitored fields lost one of them to
\* another filter hook after its capture and changed the other: the record
\* was delivered without the dropped field.
C32_Witness ==
  /\ ~monitorOptions.includeUnchanged
  /\ monitorOptions.fields = Fields
  /\ \E o \in Dispatched("update") :
       /\ ops[o].result.matched
       /\ DroppedFields(o) # {}
       /\ \E k \in Range(ops[o].keys) :
            /\ CapturedValue(o, k, CHOOSE f \in DroppedFields(o) : TRUE) # Undefined
            /\ RecordsFor(o, k) # {}

\* The monitored fields of the committed payload of o that its filter hook
\* did not capture.
AddedFields(o) ==
  (MonitoredOn(ops[o].payload) \cap DOMAIN ops[o].payload) \ ops[o].fields

\* The number of warnings the dispatch of o logged about field f being added.
AddedWarningsFor(o, f) ==
  Cardinality({i \in 1..Len(ops[o].result.warnings) :
                 /\ ops[o].result.warnings[i].kind = "added"
                 /\ ops[o].result.warnings[i].field = f})

\* C33: a monitored field that the committed payload of an update holds and
\* that was not captured is reported by exactly one warning; it is absent
\* from previous in every Change Record of the dispatch; and the dispatch
\* goes on for the other fields: a key whose snapshot differs from the
\* payload in a captured monitored field gets a record with the captured
\* value in previous and the committed value in current.
C33_AddedFieldsWarned ==
  \A o \in Dispatched("update") :
    ops[o].result.matched =>
      /\ \A f \in AddedFields(o) : AddedWarningsFor(o, f) = 1
      /\ \A f \in Fields \ AddedFields(o) : AddedWarningsFor(o, f) = 0
      /\ \A k \in Range(ops[o].keys) :
           \A ci \in RecordsFor(o, k) :
             DOMAIN RecordAt(o, ci).previous \cap AddedFields(o) = {}
      /\ AddedFields(o) # {} =>
           \A k \in Range(ops[o].keys) \cap CapturedKeys(o) :
             \A f \in Differing(o, k) \ AddedFields(o) :
               \E ci \in RecordsFor(o, k) :
                 /\ Get(RecordAt(o, ci).previous, f) = CapturedValue(o, k, f)
                 /\ Get(RecordAt(o, ci).current, f) = ops[o].payload[f]

\* The Change Records the handler received in the dispatch of o.
DeliveredRecords(o) ==
  {ops[o].result.calls[c].mutations[i] :
     <<c, i>> \in {ci \in (1..Len(ops[o].result.calls)) \X (1..Cardinality(Keys)) :
                     ci[2] <= Len(ops[o].result.calls[ci[1]].mutations)}}

\* C34: every Change Record a handler receives, of a create as of an update
\* or a delete, has the hasChanged operation, and on the record of a create
\* hasChanged(field) is true iff previous[field] differs from current[field],
\* previous being empty.
C34_HasChangedOnEveryRecord ==
  \A o \in OpIds :
    ops[o].pc = "done" =>
      \A m \in DeliveredRecords(o) :
        /\ m.hasChanged # "undefined"
        /\ m.action = "create" =>
             \A f \in Fields :
               hasChanged(m, f, Undefined, Undefined)
                 <=> HasChangedSpec(m, f, Undefined, Undefined)

\* The action hook invocations that are over: they returned or threw.
Over == {i \in 1..Len(dispatches) : dispatches[i].hook \in {"returned", "threw"}}

\* C35 as stated: the dispatch of a create returns without waiting for the
\* handler, so a handler of a create that has not completed belongs to a
\* dispatch that has returned; the dispatch of an update or delete is over
\* only when its handler has completed.
C35_CreateFireAndForget ==
  \A i \in 1..Len(dispatches) :
    IF dispatches[i].event = "create"
    THEN dispatches[i].handler = "pending" => dispatches[i].hook = "returned"
    ELSE i \in Over => dispatches[i].handler # "pending"

\* C35: on the create path as on the update and delete path, the dispatch
\* is over only when the handler it called has completed, and a handler that
\* failed was logged once.
C35_AwaitsOnEveryPath ==
  \A i \in Over :
    /\ dispatches[i].handler # "pending"
    /\ dispatches[i].handler = "failed" <=> dispatches[i].errors = 1

\* The handler of a create returned a promise that was fulfilled before the
\* dispatch returned, while the dispatch of another create still waits for
\* the promise of its handler.
C35_Witness ==
  \E i, j \in 1..Len(dispatches) :
    /\ dispatches[i].event = "create"
    /\ dispatches[i].promised
    /\ dispatches[i].handler = "completed"
    /\ dispatches[i].hook = "returned"
    /\ dispatches[j].event = "create"
    /\ dispatches[j].handler = "pending"
    /\ dispatches[j].hook = "awaiting"

\* The positions of the queue of lock id whose requests this step grants.
GrantedNow(id) ==
  {j \in 1..Len(lockObjects[id].queue) :
     /\ lockers[lockObjects[id].queue[j].grant].pc = "waiting"
     /\ lockers'[lockObjects[id].queue[j].grant].pc = "holding"}

\* This step is a release of lock id by one of its holders.
ReleaseStep(id) ==
  \E l \in Lockers :
    /\ lockers[l].pc = "holding"
    /\ lockers[l].lock = id
    /\ lockers'[l].pc = "released"

\* C36: queued requests are granted by release in the order in which they
\* arrived.  A release of a lock without extra shares and with a queue grants
\* the head; behind a shared head it grants every shared request up to the
\* first exclusive one, in the same step; the granted requests leave the
\* queue and the others keep their order; no request is granted while an
\* exclusive request is queued before it, and none is granted otherwise.
C36_FifoGrant ==
  [][\A id \in 1..Len(lockObjects) :
       LET lock == lockObjects[id]
           queue == lock.queue
           G == GrantedNow(id)
           n == Cardinality(G)
       IN /\ G = 1..n
          /\ \A j \in G : \A i \in 1..(j - 1) : queue[i].shared
          /\ G # {} =>
               /\ ReleaseStep(id)
               /\ ~(lock.shared /\ lock.shares > 0)
               /\ \A j \in G : queue[j].shared = queue[1].shared
               /\ queue[1].shared /\ n < Len(queue) => ~queue[n + 1].shared
               /\ lockObjects'[id].queue = SubSeq(queue, n + 1, Len(queue))
          /\ (ReleaseStep(id) /\ ~(lock.shared /\ lock.shares > 0)
                /\ queue # <<>>) => 1 \in G
          /\ \A l \in Lockers :
               (lockers[l].pc = "waiting" /\ lockers[l].lock = id) =>
                 \E j \in 1..Len(queue) :
                   /\ queue[j].grant = l
                   /\ queue[j].shared = lockers[l].shared]_vars

\* An exclusive holder released a lock on which two shared requests and then
\* an exclusive one were queued: both shared requests were granted by that
\* release and the exclusive one is now the head of the queue.
C36_Witness ==
  \E id \in 1..Len(lockObjects) :
    /\ lockObjects[id].shared
    /\ lockObjects[id].shares = 0
    /\ Len(lockObjects[id].queue) = 1
    /\ ~lockObjects[id].queue[1].shared
    /\ lockers[lockObjects[id].queue[1].grant].pc = "waiting"
    /\ Cardinality({l \in Lockers : /\ lockers[l].pc = "holding"
                                    /\ lockers[l].lock = id
                                    /\ lockers[l].shared}) = 2
    /\ \E l \in Lockers : /\ lockers[l].pc = "released"
                          /\ lockers[l].lock = id
                          /\ ~lockers[l].shared

\* C37: a lock has emitted 'released' and has left currentLocks only when no
\* caller holds it and no request is queued on it; so every caller that
\* holds or awaits a lock of a target holds or awaits the one lock that is
\* registered for the target, and acquireLock creates no second lock for it.
C37_ReleasedOnlyWhenFree ==
  \A l \in Lockers :
    lockers[l].pc \in {"holding", "waiting"} =>
      /\ ~lockObjects[lockers[l].lock].emitted
      /\ lockers[l].target \in DOMAIN currentLocks
      /\ currentLocks[lockers[l].target] = lockers[l].lock

\* C38: every request for a lock is granted in the end when every holder
\* calls release, also an exclusive request that is queued on a shared lock
\* while further shared requests arrive for the target.
C38_EventuallyGranted ==
  \A l \in Lockers : (lockers[l].pc = "waiting") ~> (lockers[l].pc = "holding")

\* C39: minimalUpsert leaves the data object of its caller as it was: after
\* a call that ended in create, update, none or an error the object has the
\* fields and the values it had before the call.
C39_DataUnmodified ==
  \A i \in 1..Len(upserts) : upserts[i].dataAfter = upserts[i].data

====
